---- MODULE Spec2Model ----
(***************************************************************************)
(* Verifiable Data Streaming: Data Owner (vds_owner.py), Storage Server    *)
(* (vds_server.py), Verifier (vds_verifier.py), the bilinear-map           *)
(* accumulator (vds_accumulator.py) and the vector commitment it rests on  *)
(* (vc_smallness/).                                                        *)
(*                                                                         *)
(* Group elements are represented by their discrete logarithm to the base  *)
(* of their group, written as a polynomial in the trapdoor of that group   *)
(* (s for the accumulator, alpha for the CRS) with coefficients in Z_P.    *)
(* Two group elements are equal exactly when their polynomials are equal:  *)
(* the trapdoor is an indeterminate, not a number.  A product of elements  *)
(* is a sum of polynomials, a power is a scalar multiple, a pairing is a   *)
(* product of polynomials.  A polynomial is the sequence of its            *)
(* coefficients, lowest degree first, without trailing zeros; the identity *)
(* element is the empty sequence.                                          *)
(***************************************************************************)
EXTENDS Integers, Sequences, FiniteSets, TLC

\* order of the pairing group (a small prime stands for group.order())
P == 7

\* vector dimension crs['n']
N == 2

\* bounds of the accumulator specification
MaxAccRevocations == 2
MaxItemId == 8

\* bounds of the protocol specifications
MaxBatches == 2
MaxRevocations == 2

\* bound of the HTTP server specification: concurrent requests
MaxRequests == 2

\* largest CRS dimension range proofs are made for (2^MaxDim < P)
MaxDim == 2

Mod(x) == ((x % P) + P) % P

Max(a, b) == IF a >= b THEN a ELSE b

RECURSIVE SumTo(_, _)
\* sum of f[1..k]
SumTo(f, k) == IF k = 0 THEN 0 ELSE f[k] + SumTo(f, k - 1)

RECURSIVE TrimZeros(_)
\* np.trim_zeros(a, 'b'): drop trailing zeros
TrimZeros(a) ==
    IF Len(a) = 0 THEN a
    ELSE IF a[Len(a)] = 0 THEN TrimZeros(SubSeq(a, 1, Len(a) - 1))
    ELSE a

Coef(p, k) == IF k >= 1 /\ k <= Len(p) THEN p[k] ELSE 0

\* ------------------------------------------------------------------------
\* group arithmetic in the exponent

Identity == << >>
One == << 1 >>

\* product of two elements of one group
GMul(a, b) == TrimZeros([k \in 1..Max(Len(a), Len(b)) |-> Mod(Coef(a, k) + Coef(b, k))])

\* power of an element by a known scalar c in Z_P
GExp(a, c) == TrimZeros([k \in 1..Len(a) |-> Mod(a[k] * Mod(c))])

\* product of two exponent polynomials: a pairing e(a, b), or a power by a
\* scalar that depends on the trapdoor
PolyMul(a, b) ==
    IF Len(a) = 0 \/ Len(b) = 0 THEN Identity
    ELSE TrimZeros([k \in 1..(Len(a) + Len(b) - 1) |->
            Mod(SumTo([i \in 1..Len(a) |-> a[i] * Coef(b, k - i + 1)], Len(a)))])

pair(a, b) == PolyMul(a, b)

\* the monomial trapdoor^i, the exponent of g^(trapdoor^i)
Monomial(i) == [k \in 1..(i + 1) |-> IF k = i + 1 THEN 1 ELSE 0]

\* ------------------------------------------------------------------------
\* Accumulator (vds_accumulator.py)

\* the secret key s as an exponent: the indeterminate itself
acc_sk == Monomial(1)

\* (g, g_hat, g_hat^s)
acc_pk == << One, One, acc_sk >>

\* Accumulator.setup: (acc_sk, acc_pk, f_initial, server_keys)
setup == [acc_sk |-> acc_sk, acc_pk |-> acc_pk, f_initial |-> One, server_keys |-> << One >>]

\* group.hash(bytes, ZR) on the item followed by `nulls` zero bytes: a fixed
\* map onto Z_P, which takes the value 0 and is not injective
GroupHash(item, nulls) == (item.r + 3 * nulls) % P

RECURSIVE HashFrom(_, _)
HashFrom(item, nulls) ==
    IF GroupHash(item, nulls) = 0 THEN HashFrom(item, nulls + 1)
    ELSE GroupHash(item, nulls)

\* Accumulator._hash_item
hash_item(item_bytes) == HashFrom(item_bytes, 0)

\* a faulty update: the exponent is e_i alone, the secret key is left out
blacklist_without_s(sk, f_current, item_to_revoke_bytes) ==
    GExp(f_current, hash_item(item_to_revoke_bytes))

\* Accumulator.add_to_blacklist: f_new = f_current^(e_i + s)
add_to_blacklist(sk, f_current, item_to_revoke_bytes) ==
    LET e_i == hash_item(item_to_revoke_bytes)
    IN  PolyMul(f_current, GMul(<< e_i >>, sk))

\* Accumulator.expand_server_keys: (new_server_keys, g_s_q)
expand_server_keys(sk, server_keys_tuple, update_count) ==
    LET g_last == server_keys_tuple[Len(server_keys_tuple)]
        g_s_q == PolyMul(g_last, sk)
    IN  << Append(server_keys_tuple, g_s_q), g_s_q >>

RECURSIVE PolyTimesLinear(_, _)
\* the loop of _compute_polynomial_coefficients: multiply poly by (x_i + k)
\* for every following x_i
PolyTimesLinear(poly, rest) ==
    IF Len(rest) = 0 THEN poly
    ELSE LET x_i == rest[1]
             new_poly == [k \in 1..(Len(poly) + 1) |->
                            Mod(Coef(poly, k) * x_i + Coef(poly, k - 1))]
         IN  PolyTimesLinear(new_poly, Tail(rest))

\* Accumulator._compute_polynomial_coefficients: coefficients of prod (x + k)
compute_polynomial_coefficients(X) ==
    IF Len(X) = 0 THEN << 1 >>
    ELSE PolyTimesLinear(<< Mod(X[1]), 1 >>, [k \in 1..(Len(X) - 1) |-> Mod(X[k + 1])])

\* pow(a, -1, p)
ModInverse(a) == CHOOSE b \in 1..(P - 1) : (a * b) % P = 1

RECURSIVE DivisionLoop(_, _, _, _, _)
\* the long-division loop, i counting down from len(quotient) - 1 to 0
DivisionLoop(i, quotient, remainder, divisor, divisor_lead_inv) ==
    IF i < 0 \/ Len(remainder) < Len(divisor) THEN quotient
    ELSE LET coeff == Mod(remainder[Len(remainder)] * divisor_lead_inv)
             sub == [k \in 1..Len(remainder) |->
                        IF k - 1 >= i /\ k - 1 - i < Len(divisor)
                        THEN Mod(remainder[k] - coeff * divisor[k - i])
                        ELSE remainder[k]]
         IN  DivisionLoop(i - 1, [quotient EXCEPT ![i + 1] = coeff],
                          SubSeq(sub, 1, Len(sub) - 1), divisor, divisor_lead_inv)

\* Accumulator._polynomial_division: quotient of dividend / divisor in Z_P[X]
\* (the divisor is never the zero polynomial at the one call site)
polynomial_division(dividend_coeffs, divisor_coeffs) ==
    LET dividend == TrimZeros(dividend_coeffs)
        divisor == TrimZeros(divisor_coeffs)
    IN  IF Len(dividend) < Len(divisor) THEN << 0 >>
        ELSE LET quotient == [k \in 1..(Len(dividend) - Len(divisor) + 1) |-> 0]
                 divisor_lead_inv == ModInverse(Mod(divisor[Len(divisor)]))
                 q == DivisionLoop(Len(quotient) - 1, quotient, dividend, divisor,
                                   divisor_lead_inv)
             IN  [k \in 1..Len(q) |-> Mod(q[k])]

RECURSIVE ProductOfSums(_, _)
\* a faulty u_y: the sign of y is lost, prod (x_i + y) mod p
ProductOfSums(X_hashed, y) ==
    IF Len(X_hashed) = 0 THEN 1
    ELSE Mod(ProductOfSums(SubSeq(X_hashed, 1, Len(X_hashed) - 1), y)
             * (X_hashed[Len(X_hashed)] + y))

RECURSIVE ProductOfDifferences(_, _)
\* u_y before negation: prod (x_i - y) mod p
ProductOfDifferences(X_hashed, y) ==
    IF Len(X_hashed) = 0 THEN 1
    ELSE Mod(ProductOfDifferences(SubSeq(X_hashed, 1, Len(X_hashed) - 1), y)
             * (X_hashed[Len(X_hashed)] - y))

RECURSIVE WitnessProduct(_, _, _)
\* prod server_keys[i]^(v_i) over the first k coefficients
WitnessProduct(server_keys_tuple, q_hat_coeffs, k) ==
    IF k = 0 THEN Identity
    ELSE GMul(WitnessProduct(server_keys_tuple, q_hat_coeffs, k - 1),
              GExp(server_keys_tuple[k], q_hat_coeffs[k]))

\* Accumulator.prove_non_membership.  f_current is accepted and never read.
\* Result: [ok |-> TRUE, w, u] or [ok |-> FALSE, error].
\* prove_non_membership folding the accumulator value it is given into w
prove_from_accumulator(server_keys_tuple, f_current, item_to_check_bytes, X) ==
    LET y == hash_item(item_to_check_bytes)
        q == Len(server_keys_tuple) - 1
    IN  IF q = 0 THEN [ok |-> TRUE, w |-> f_current, u |-> Mod(0 - 1)]
        ELSE IF Len(X) = 0 THEN [ok |-> FALSE, error |-> "X must be provided"]
        ELSE LET X_hashed == [k \in 1..Len(X) |-> hash_item(X[k])]
                 u_y == Mod(0 - ProductOfDifferences(X_hashed, y))
             IN  IF u_y = 0 THEN [ok |-> FALSE, error |-> "in the blacklist"]
                 ELSE LET f_X_coeffs == compute_polynomial_coefficients(X_hashed)
                          h_X_coeffs == [f_X_coeffs EXCEPT ![1] = Mod(f_X_coeffs[1] + u_y)]
                          q_hat_coeffs == polynomial_division(h_X_coeffs, << y, 1 >>)
                      IN  IF Len(q_hat_coeffs) > Len(server_keys_tuple)
                          THEN [ok |-> FALSE, error |-> "Insufficient server keys"]
                          ELSE [ok |-> TRUE,
                                w |-> GMul(f_current,
                                          WitnessProduct(server_keys_tuple, q_hat_coeffs,
                                                         Len(q_hat_coeffs))),
                                u |-> u_y]

prove_non_membership(server_keys_tuple, f_current, item_to_check_bytes, X) ==
    LET y == hash_item(item_to_check_bytes)
        q == Len(server_keys_tuple) - 1
    IN  IF q = 0 THEN [ok |-> TRUE, w |-> Identity, u |-> Mod(0 - 1)]
        ELSE IF Len(X) = 0 THEN [ok |-> FALSE, error |-> "X must be provided"]
        ELSE LET X_hashed == [k \in 1..Len(X) |-> hash_item(X[k])]
                 u_y == Mod(0 - ProductOfDifferences(X_hashed, y))
             IN  IF u_y = 0 THEN [ok |-> FALSE, error |-> "in the blacklist"]
                 ELSE LET f_X_coeffs == compute_polynomial_coefficients(X_hashed)
                          h_X_coeffs == [f_X_coeffs EXCEPT ![1] = Mod(f_X_coeffs[1] + u_y)]
                          q_hat_coeffs == polynomial_division(h_X_coeffs, << y, 1 >>)
                      IN  IF Len(q_hat_coeffs) > Len(server_keys_tuple)
                          THEN [ok |-> FALSE, error |-> "Insufficient server keys"]
                          ELSE [ok |-> TRUE,
                                w |-> WitnessProduct(server_keys_tuple, q_hat_coeffs,
                                                     Len(q_hat_coeffs)),
                                u |-> u_y]

\* a faulty verification equation: the factor g^u is left out of the right side
verify_without_u(pk, f_current, item_to_check_bytes, pi_non) ==
    LET g_hat == pk[2]
        g_hat_s == pk[3]
        e_i == hash_item(item_to_check_bytes)
    IN  pair(pi_non.w, GMul(GExp(g_hat, e_i), g_hat_s)) = pair(f_current, g_hat)

\* Accumulator.verify_non_membership: e(w, g_hat^e_i * g_hat^s) = e(f * g^u, g_hat)
verify_non_membership(pk, f_current, item_to_check_bytes, pi_non) ==
    LET g == pk[1]
        g_hat == pk[2]
        g_hat_s == pk[3]
        e_i == hash_item(item_to_check_bytes)
        lhs == pair(pi_non.w, GMul(GExp(g_hat, e_i), g_hat_s))
        rhs == pair(GMul(f_current, GExp(g, pi_non.u)), g_hat)
    IN  lhs = rhs

\* ------------------------------------------------------------------------
\* Python values that reach the serialisers: a list of group elements or one
\* group element.  str(list) and str(element) never coincide.

PyList(elems) == [kind |-> "list", elems |-> elems]

PyElem(e) == [kind |-> "elem", elems |-> << e >>]

\* ------------------------------------------------------------------------
\* CRS and commitments (vc_smallness/crs.py, commit.py, proofs.py)

\* keygen_crs: g_i = g^(alpha^i) for i in [2n] \ {n+1}, g_hat_i for i in [n]
keygen_crs(n) ==
    [n |-> n, g |-> One, g_hat |-> One,
     g_list |-> [i \in (1..(2 * n)) \ {n + 1} |-> Monomial(i)],
     g_hat_list |-> [i \in 1..n |-> Monomial(i)]]

crs == keygen_crs(N)

RECURSIVE CommitProduct(_, _, _)
\* prod_{j=1..k} bases[j]^(m[j])
CommitProduct(bases, m, k) ==
    IF k = 0 THEN Identity
    ELSE GMul(CommitProduct(bases, m, k - 1), GExp(bases[k], m[k]))

\* commit_G: C = g^gamma * prod g_j^(m_j)
commit_G(m, gamma, c) == GMul(GExp(c.g, gamma), CommitProduct(c.g_list, m, c.n))

\* commit_Ghat: C_hat = g_hat^gamma * prod g_hat_j^(x_j)
commit_Ghat(x, gamma, c) == GMul(GExp(c.g_hat, gamma), CommitProduct(c.g_hat_list, x, c.n))

RECURSIVE PointOpenProduct(_, _, _, _)
\* prod over j <= k, j # i, of g_{n+1-i+j}^(m_j)
PointOpenProduct(m, i, k, c) ==
    IF k = 0 THEN Identity
    ELSE IF k = i THEN PointOpenProduct(m, i, k - 1, c)
    ELSE GMul(PointOpenProduct(m, i, k - 1, c), GExp(c.g_list[c.n + 1 - i + k], m[k]))

\* prove_point_open: pi_i = g_{n+1-i}^gamma * prod_{j # i} g_{n+1-i+j}^(m_j).
\* The commitment C is accepted and never read.
prove_point_open(C, m, gamma, i, c) ==
    GMul(GExp(c.g_list[c.n + 1 - i], gamma), PointOpenProduct(m, i, c.n, c))

\* group.hash(bytes, ZR) for the Fiat-Shamir oracle: a fixed map of the
\* serialised elements and the counter into Z_P
RECURSIVE Digest(_, _)
Digest(elems, k) ==
    IF k = 0 THEN 0
    ELSE Digest(elems, k - 1)
         + SumTo([j \in 1..Len(elems[k]) |-> (j + k) * elems[k][j]], Len(elems[k]))

\* H_t: t_i = hash("HT" || C || C_hat || C_y || ctx || i), i = 1..n.  A list
\* is serialised item by item, so a one-element list hashes like its element.
\* C_hat and C_y are the identity at both call sites.
H_t(C, n) == [i \in 1..n |-> (Digest(C.elems, Len(C.elems)) + 2 * i + 1) % P]

\* ------------------------------------------------------------------------
\* Binding signature (vds_utils.py).  A signature is the bytes sigma; it
\* verifies for the one digest it was made for, under the key that made it.

\* serialize_group_element / serialize_for_signing / hash_for_signing:
\* SHA-256 of serialise(C_data) || serialise(C_time), collision free
hash_for_signing(C_data, C_time) == [C_data |-> C_data, C_time |-> C_time]

\* sign_batch; r stands for the bytes of this (randomised) signature
sign_batch(sk, C_data, C_time, r) ==
    [signer |-> sk, msg |-> hash_for_signing(C_data, C_time), r |-> r]

\* a faulty signature check: C_time is not part of what is compared
verify_signature_over_data(vk, C_data, C_time, sigma) ==
    /\ sigma.signer = vk
    /\ sigma.msg.C_data = C_data

verify_batch_signature(vk, C_data, C_time, sigma) ==
    /\ sigma.signer = vk
    /\ sigma.msg = hash_for_signing(C_data, C_time)

\* serialize_signature: the identity
serialize_signature(sigma) == sigma

\* ------------------------------------------------------------------------
\* Data Owner (vds_owner.py)

\* DataOwner._get_latest_global_pk
\* a global_pk that keeps publishing the initial accumulator value
get_initial_global_pk(f) == [vk_sig |-> "DO", acc_pk |-> acc_pk, f_current |-> setup.f_initial]

get_latest_global_pk(f) == [vk_sig |-> "DO", acc_pk |-> acc_pk, f_current |-> f]

\* DataOwner.create_batch on a matrix given as a list of columns; gammas are
\* the random scalars drawn (gamma_time first, then one per column), r the
\* signature bytes.  [ok |-> FALSE, error] when validation raises.
create_batch(m_matrix, t_vector, gammas, r) ==
    LET n == crs.n
    IN  IF Len(t_vector) # n THEN [ok |-> FALSE, error |-> "Time vector must have length n"]
        ELSE IF Len(m_matrix) = 0
             THEN [ok |-> FALSE, error |-> "m_matrix must contain at least one column"]
        ELSE IF \E j \in 1..Len(m_matrix) : Len(m_matrix[j]) # n
             THEN [ok |-> FALSE, error |-> "Column must have length n"]
        ELSE LET gamma_time == gammas[1]
                 C_time == commit_Ghat(t_vector, gamma_time, crs)
                 gamma_data_list == [j \in 1..Len(m_matrix) |-> gammas[j + 1]]
                 C_data_list == PyList([j \in 1..Len(m_matrix) |->
                                           commit_G(m_matrix[j], gamma_data_list[j], crs)])
                 sigma == sign_batch("DO", C_data_list, C_time, r)
                 batch_id == hash_for_signing(C_data_list, C_time)
             IN  [ok |-> TRUE,
                  batch_id |-> batch_id,
                  public_header |-> [key |-> "C_data_list", data |-> C_data_list,
                                     C_time |-> C_time, sigma |-> sigma],
                  secrets_for_ss |-> [m_matrix |-> m_matrix, t |-> t_vector,
                                      gamma_data_list |-> gamma_data_list,
                                      gamma_time |-> gamma_time]]

\* DataOwner.revoke_batch on the owner's (current_f, update_count,
\* server_acc_keys): the new values of the three fields and of global_pk, and
\* the returned (g_s_q_new, global_pk, sigma_bytes)
\* revoke_batch leaving the owner as it is when (H(sigma) + s) already
\* divides current_f
revoke_batch_once(current_f, update_count, server_acc_keys, sigma_to_revoke) ==
    LET sigma_bytes == serialize_signature(sigma_to_revoke)
        root == Mod(0 - hash_item(sigma_bytes))
        value == Mod(SumTo([k \in 1..Len(current_f) |-> current_f[k] * root ^ (k - 1)],
                           Len(current_f)))
        f_new == add_to_blacklist(acc_sk, current_f, sigma_bytes)
        count_new == update_count + 1
        expanded == expand_server_keys(acc_sk, server_acc_keys, count_new)
    IN  IF value = 0
        THEN [current_f |-> current_f, update_count |-> update_count,
              server_acc_keys |-> server_acc_keys,
              global_pk |-> get_latest_global_pk(current_f),
              returned |-> [g_s_q_new |-> server_acc_keys[Len(server_acc_keys)],
                            global_pk |-> get_latest_global_pk(current_f),
                            sigma_bytes |-> sigma_bytes]]
        ELSE [current_f |-> f_new, update_count |-> count_new,
              server_acc_keys |-> expanded[1], global_pk |-> get_latest_global_pk(f_new),
              returned |-> [g_s_q_new |-> expanded[2],
                            global_pk |-> get_latest_global_pk(f_new),
                            sigma_bytes |-> sigma_bytes]]

revoke_batch(current_f, update_count, server_acc_keys, sigma_to_revoke) ==
    LET sigma_bytes == serialize_signature(sigma_to_revoke)
        f_new == add_to_blacklist(acc_sk, current_f, sigma_bytes)
        count_new == update_count + 1
        expanded == expand_server_keys(acc_sk, server_acc_keys, count_new)
        pk_new == get_latest_global_pk(f_new)
    IN  [current_f |-> f_new, update_count |-> count_new,
         server_acc_keys |-> expanded[1], global_pk |-> pk_new,
         returned |-> [g_s_q_new |-> expanded[2], global_pk |-> pk_new,
                       sigma_bytes |-> sigma_bytes]]

\* the calls revoke_batch makes, in order; any of them may end in an
\* exception, which revoke_batch does not catch
RevokeSteps == << "add_to_blacklist", "expand_server_keys", "_get_latest_global_pk" >>

\* DataOwner.revoke_batch when the call named by failing raises: the
\* assignments made before that call stay, the others are not reached
revoke_batch_raising(current_f, update_count, server_acc_keys, global_pk, sigma_to_revoke, failing) ==
    LET done == revoke_batch(current_f, update_count, server_acc_keys, sigma_to_revoke)
    IN  IF failing = "add_to_blacklist"
        THEN [current_f |-> current_f, update_count |-> update_count,
              server_acc_keys |-> server_acc_keys, global_pk |-> global_pk]
        ELSE IF failing = "expand_server_keys"
        THEN [current_f |-> done.current_f, update_count |-> done.update_count,
              server_acc_keys |-> server_acc_keys, global_pk |-> global_pk]
        ELSE [current_f |-> done.current_f, update_count |-> done.update_count,
              server_acc_keys |-> done.server_acc_keys, global_pk |-> global_pk]

\* DataOwner.update_batch: revoke_batch on the old header's sigma, then
\* create_batch on the new data.  The owner's fields are those revoke_batch
\* assigned whether or not create_batch raises afterwards.
owner_update_batch(current_f, update_count, server_acc_keys, old_batch_header, new_m_matrix, new_t_vector, gammas, r) ==
    LET revoked == revoke_batch(current_f, update_count, server_acc_keys,
                                old_batch_header.sigma)
        created == create_batch(new_m_matrix, new_t_vector, gammas, r)
    IN  [current_f |-> revoked.current_f, update_count |-> revoked.update_count,
         server_acc_keys |-> revoked.server_acc_keys, global_pk |-> revoked.global_pk,
         ok |-> created.ok,
         error |-> IF created.ok THEN "" ELSE created.error,
         returned |-> revoked.returned,
         created |-> created]

\* ------------------------------------------------------------------------
\* Storage Server (vds_server.py)

RECURSIVE InnerProduct(_, _, _)
\* sum_{i<=k} m_i * t_i in Z_P
InnerProduct(m, t, k) ==
    IF k = 0 THEN 0 ELSE Mod(InnerProduct(m, t, k - 1) + m[k] * t[k])

RECURSIVE AggregateProofs(_, _, _, _, _)
\* prod_{i<=k} pi_i^(t_i)
AggregateProofs(C, m, gamma, t, k) ==
    IF k = 0 THEN Identity
    ELSE GMul(AggregateProofs(C, m, gamma, t, k - 1),
              GExp(prove_point_open(C, m, gamma, k, crs), t[k]))

\* the try/except around prove_non_membership in the proof generators: the
\* dummy witness for "in the blacklist", any other error is raised again
witness_or_dummy(server_acc_keys, f_current, sigma, revoked_items) ==
    LET pi == prove_non_membership(server_acc_keys, f_current,
                                   serialize_signature(sigma), revoked_items)
    IN  IF pi.ok THEN [ok |-> TRUE, w |-> pi.w, u |-> pi.u]
        ELSE IF pi.error = "in the blacklist" THEN [ok |-> TRUE, w |-> Identity, u |-> 0]
        ELSE [ok |-> FALSE, error |-> pi.error]

\* the part the two proof generators share once the challenge is known:
\* x = sum m_i t_i, pi_audit = prod pi_i^(t_i), the non-membership witness
proof_for_column(entry, server_acc_keys, revoked_items, t, f_current, column_index) ==
    LET m == entry.secrets.m_matrix[column_index + 1]
        gamma_data == entry.secrets.gamma_data_list[column_index + 1]
        C_data == entry.header.data.elems[column_index + 1]
        n == Len(m)
        pi_non == witness_or_dummy(server_acc_keys, f_current, entry.header.sigma,
                                   revoked_items)
    IN  IF ~pi_non.ok THEN [ok |-> FALSE, error |-> pi_non.error]
        ELSE [ok |-> TRUE, t |-> t,
              x |-> InnerProduct(m, t, n),
              pi_audit |-> AggregateProofs(C_data, m, gamma_data, t, n),
              pi_non |-> [w |-> pi_non.w, u |-> pi_non.u]]

\* a faulty generator: the range check on column_index is left out, so that
\* a negative index counts from the last column as m_matrix[column_index]
\* does, and an index past the last column is an IndexError
generate_dc_without_range_check(storage, server_acc_keys, revoked_items, batch_id, t_challenge_vector, f_current, column_index) ==
    IF batch_id \notin DOMAIN storage THEN [ok |-> FALSE, error |-> "Batch not found"]
    ELSE LET entry == storage[batch_id]
             d == Len(entry.secrets.m_matrix)
             j == IF column_index < 0 THEN d + column_index ELSE column_index
         IN  IF j < 0 \/ j >= d
             THEN [ok |-> FALSE, error |-> "list index out of range"]
             ELSE IF Len(t_challenge_vector) # Len(entry.secrets.m_matrix[j + 1])
             THEN [ok |-> FALSE, error |-> "Challenge vector length"]
             ELSE proof_for_column(entry, server_acc_keys, revoked_items,
                                   t_challenge_vector, f_current, j)

\* StorageServer.generate_dc_data_proof
generate_dc_data_proof(storage, server_acc_keys, revoked_items, batch_id, t_challenge_vector, f_current, column_index) ==
    IF batch_id \notin DOMAIN storage THEN [ok |-> FALSE, error |-> "Batch not found"]
    ELSE LET entry == storage[batch_id]
         IN  IF column_index < 0 \/ column_index >= Len(entry.secrets.m_matrix)
             THEN [ok |-> FALSE, error |-> "column_index out of range"]
             ELSE IF Len(t_challenge_vector) # Len(entry.secrets.m_matrix[column_index + 1])
             THEN [ok |-> FALSE, error |-> "Challenge vector length"]
             ELSE proof_for_column(entry, server_acc_keys, revoked_items,
                                   t_challenge_vector, f_current, column_index)

\* StorageServer.generate_da_audit_proof
generate_da_audit_proof(storage, server_acc_keys, revoked_items, batch_id, f_current, column_index) ==
    IF batch_id \notin DOMAIN storage THEN [ok |-> FALSE, error |-> "Batch not found"]
    ELSE LET entry == storage[batch_id]
         IN  IF column_index < 0 \/ column_index >= Len(entry.secrets.m_matrix)
             THEN [ok |-> FALSE, error |-> "column_index out of range"]
             ELSE LET C_data == entry.header.data.elems[column_index + 1]
                      n == Len(entry.secrets.m_matrix[column_index + 1])
                  IN  proof_for_column(entry, server_acc_keys, revoked_items,
                                       H_t(PyElem(C_data), n), f_current, column_index)

\* ------------------------------------------------------------------------
\* Range proofs (vc_smallness/commit.py, proofs.py, verify.py).  The random
\* scalars a function draws are arguments here; exponents are polynomials
\* in the CRS trapdoor alpha.

\* a^(-1) in a group
GInv(a) == GExp(a, P - 1)

\* gt_div
gt_div(a, b) == GMul(a, GInv(b))

\* commit_V: g_hat^r * g_hat_1^x
commit_V(x_scalar, r, c) == GMul(GExp(c.g_hat, r), GExp(c.g_hat_list[1], x_scalar))

\* scalar_to_bits: the ell low bits of x, lowest first
scalar_to_bits(x, ell) == [i \in 1..ell |-> (x \div (2 ^ (i - 1))) % 2]

\* bits_to_scalar: sum of bit_i * 2^i in Z_p
bits_to_scalar(bits) == Mod(SumTo([i \in 1..Len(bits) |-> bits[i] * 2 ^ (i - 1)], Len(bits)))

\* x_bits + [0] * (n - l)
Padded(bits, n) == [i \in 1..n |-> IF i <= Len(bits) THEN bits[i] ELSE 0]

RECURSIVE WeightedProofs(_, _)
\* product of bit_proofs[i]^(2^(i-1)) for i in 1..k
WeightedProofs(bit_proofs, k) ==
    IF k = 0 THEN Identity
    ELSE GMul(WeightedProofs(bit_proofs, k - 1), GExp(bit_proofs[k], 2 ^ (k - 1)))

prove_x(bit_proofs, r, c) ==
    GMul(WeightedProofs(bit_proofs, Len(bit_proofs)), GExp(c.g_list[c.n], 0 - r))

RECURSIVE MessagePoly(_, _)
\* M(X) = sum of x_j X^j for j in 1..k
MessagePoly(x, k) ==
    IF k = 0 THEN Identity
    ELSE GMul(MessagePoly(x, k - 1), GExp(Monomial(k), x[k]))

RECURSIVE ProductPoly(_, _, _, _)
\* YX(X) = sum of (y_j x_j) X^(n+1-j) for j in 1..k
ProductPoly(y, x, n, k) ==
    IF k = 0 THEN Identity
    ELSE GMul(ProductPoly(y, x, n, k - 1), GExp(Monomial(n + 1 - k), y[k] * x[k]))

RECURSIVE NumeratorPoly(_, _, _, _, _, _)
\* P_num(X): the terms (t_i y_i) X^(n+1-i) (gamma + sum_{j # i} x_j X^j), i in 1..k
NumeratorPoly(t, y, x, gamma, n, k) ==
    IF k = 0 THEN Identity
    ELSE GMul(NumeratorPoly(t, y, x, gamma, n, k - 1),
              IF Mod(t[k] * y[k]) = 0 THEN Identity
              ELSE GExp(PolyMul(Monomial(n + 1 - k),
                                GMul(GMul(MessagePoly(x, n), GInv(GExp(Monomial(k), x[k]))),
                                     GExp(One, gamma))),
                        t[k] * y[k]))

RECURSIVE DenominatorPoly(_, _, _, _, _, _)
\* P_den(X): the terms t_i X^i (gamma_y + sum_{j # i} (y_j x_j) X^(n+1-j)), i in 1..k
DenominatorPoly(t, y, x, gamma_y, n, k) ==
    IF k = 0 THEN Identity
    ELSE GMul(DenominatorPoly(t, y, x, gamma_y, n, k - 1),
              IF Mod(t[k]) = 0 THEN Identity
              ELSE GExp(PolyMul(Monomial(k),
                                GMul(GMul(ProductPoly(y, x, n, n),
                                          GInv(GExp(Monomial(n + 1 - k), y[k] * x[k]))),
                                     GExp(One, gamma_y))),
                        t[k]))

RECURSIVE EqProduct(_, _, _)
\* g^(nu_0) * product of g_degree^(nu_degree), the degree n + 1 skipped
EqProduct(coeffs, k, c) ==
    IF k = 0 THEN Identity
    ELSE GMul(EqProduct(coeffs, k - 1, c),
              IF k - 1 = 0 THEN GExp(c.g, coeffs[k])
              ELSE IF k - 1 = c.n + 1 THEN Identity
              ELSE GExp(c.g_list[k - 1], coeffs[k]))

prove_eq(t, y, x, gamma, gamma_y, c) ==
    LET P_pi == GMul(NumeratorPoly(t, y, x, gamma, c.n, c.n),
                     GInv(DenominatorPoly(t, y, x, gamma_y, c.n, c.n)))
    IN  EqProduct(P_pi, Len(P_pi), c)

RECURSIVE OrthogonalOuter(_, _, _, _, _)
\* product of g_(n+1-j)^(gamma y_j (x_j - 1)) for j in 1..k
OrthogonalOuter(x, y, gamma, k, c) ==
    IF k = 0 THEN Identity
    ELSE GMul(OrthogonalOuter(x, y, gamma, k - 1, c),
              GExp(c.g_list[c.n + 1 - k], gamma * y[k] * (x[k] - 1)))

RECURSIVE OrthogonalInner(_, _, _, _, _)
\* product over j in 1..k, j # i, of g_(n+1-j+i)^(y_j (x_j - 1))
OrthogonalInner(x, y, i, k, c) ==
    IF k = 0 THEN Identity
    ELSE IF k = i THEN OrthogonalInner(x, y, i, k - 1, c)
    ELSE GMul(OrthogonalInner(x, y, i, k - 1, c),
              GExp(c.g_list[c.n + 1 - k + i], y[k] * (x[k] - 1)))

RECURSIVE OrthogonalTerms(_, _, _, _, _)
\* product over i in 1..k of (g_i^gamma_y * inner_i)^(x_i)
OrthogonalTerms(x, y, gamma_y, k, c) ==
    IF k = 0 THEN Identity
    ELSE GMul(OrthogonalTerms(x, y, gamma_y, k - 1, c),
              GExp(GMul(GExp(c.g_list[k], gamma_y), OrthogonalInner(x, y, k, c.n, c)),
                   x[k]))

prove_y(x, y, gamma, gamma_y, c) ==
    GMul(GMul(GExp(c.g, gamma * gamma_y), OrthogonalOuter(x, y, gamma, c.n, c)),
         OrthogonalTerms(x, y, gamma_y, c.n, c))

RECURSIVE AuxiliaryProduct(_, _, _, _, _)
\* product over i in 2..k of (g_(n+1-i)^r * g_(n+2-i)^x)^(s_i); s holds s_2..s_n
AuxiliaryProduct(x_scalar, r, s, k, c) ==
    IF k < 2 THEN Identity
    ELSE GMul(AuxiliaryProduct(x_scalar, r, s, k - 1, c),
              GExp(GMul(GExp(c.g_list[c.n + 1 - k], r), GExp(c.g_list[c.n + 2 - k], x_scalar)),
                   s[k - 1]))

prove_v(x_scalar, r, s, c) == AuxiliaryProduct(x_scalar, r, s, c.n, c)

\* sha256 over the given elements, reduced to Z_p; salt tells the digests'
\* slices apart
FiatShamir(elems, salt) == (Digest(elems, Len(elems)) * (salt + 1) + salt) % P

\* (v, 0, ..., 0) of length n
FirstOnly(v, n) == [i \in 1..n |-> IF i = 1 THEN v ELSE 0]

\* t_vec[1:]
Tail0(t_vec) == [i \in 1..(Len(t_vec) - 1) |-> t_vec[i + 1]]

\* the challenges y, t and delta_x, delta_eq, delta_y, delta_v that prover
\* and verifier derive from the commitments
Challenges_y(C_hat, V_hat) == FiatShamir(<< C_hat, V_hat >>, 0)

Challenges_t(y, C_hat, C_y) == FiatShamir(<< << y >>, C_hat, C_y >>, 1)

Challenges_delta(C_hat, V_hat, C_y) ==
    [k \in 1..4 |-> FiatShamir(<< C_hat, V_hat, C_y >>, k + 1)]

\* prove_range_proof with the scalars gamma, r and gamma_y it draws
prove_range_proof_drawing(x_value, l, c, gamma, r, gamma_y) ==
    IF l > c.n THEN [ok |-> FALSE, error |-> "Bit length l must be <= n"]
    ELSE IF Mod(x_value) >= 2 ^ l THEN [ok |-> FALSE, error |-> "Value x out of range"]
    ELSE LET x_bits_int == scalar_to_bits(Mod(x_value), l)
             x_bits_padded == Padded(x_bits_int, c.n)
             C_hat == commit_Ghat(x_bits_padded, gamma, c)
             x_scalar == bits_to_scalar(x_bits_int)
             V_hat == commit_V(x_scalar, r, c)
             bit_proofs == [i \in 1..l |-> prove_point_open(C_hat, x_bits_padded, gamma, i, c)]
             pi_x == prove_x(bit_proofs, r, c)
             y == Challenges_y(C_hat, V_hat)
             y_vec == FirstOnly(y, c.n)
             y_circ_x == [i \in 1..c.n |-> Mod(y_vec[i] * x_bits_padded[i])]
             C_y == commit_G(y_circ_x, gamma_y, c)
             t == Challenges_t(y, C_hat, C_y)
             t_vec == FirstOnly(t, c.n)
             pi_eq == prove_eq(t_vec, y_vec, x_bits_padded, gamma, gamma_y, c)
             pi_y == prove_y(x_bits_padded, y_vec, gamma, gamma_y, c)
             pi_v == prove_v(x_scalar, r, Tail0(t_vec), c)
             delta == Challenges_delta(C_hat, V_hat, C_y)
         IN  [ok |-> TRUE, C_hat |-> C_hat, V_hat |-> V_hat, C_y |-> C_y,
              pi_agg |-> GMul(GMul(GExp(pi_x, delta[1]), GExp(pi_eq, delta[2])),
                              GMul(GExp(pi_y, delta[3]), GExp(pi_v, delta[4]))),
              l |-> l]

RECURSIVE ReversedProduct(_, _, _, _)
\* product of g_(n+1-i)^(w_i) for i in from..k
ReversedProduct(w, from, k, c) ==
    IF k < from THEN Identity
    ELSE GMul(ReversedProduct(w, from, k - 1, c), GExp(c.g_list[c.n + 1 - k], w[k]))

verify_range_proof(range_proof, l, c) ==
    IF l # range_proof.l THEN FALSE
    ELSE LET C_hat == range_proof.C_hat
             V_hat == range_proof.V_hat
             C_y == range_proof.C_y
             y == Challenges_y(C_hat, V_hat)
             y_vec == FirstOnly(y, c.n)
             t == Challenges_t(y, C_hat, C_y)
             t_vec == FirstOnly(t, c.n)
             delta == Challenges_delta(C_hat, V_hat, C_y)
             lhs_9 == gt_div(pair(ReversedProduct([i \in 1..l |-> 2 ^ (i - 1)], 1, l, c), C_hat),
                             pair(c.g_list[c.n], V_hat))
             lhs_5 == gt_div(pair(ReversedProduct([i \in 1..c.n |-> t_vec[i] * y_vec[i]],
                                                  1, c.n, c), C_hat),
                             pair(C_y, CommitProduct(c.g_hat_list, t_vec, c.n)))
             lhs_7 == pair(GMul(C_y, ReversedProduct([j \in 1..c.n |-> 0 - y_vec[j]],
                                                     1, c.n, c)), C_hat)
             lhs_20 == pair(ReversedProduct([i \in 1..c.n |-> IF i = 1 THEN 0 ELSE t_vec[i]],
                                            2, c.n, c), V_hat)
             lhs_agg == GMul(GMul(GExp(lhs_9, delta[1]), GExp(lhs_5, delta[2])),
                             GMul(GExp(lhs_7, delta[3]), GExp(lhs_20, delta[4])))
             rhs_agg == pair(range_proof.pi_agg, c.g_hat)
         IN  lhs_agg = rhs_agg

NoRun == [stage |-> "idle"]

\* scalars group.random(ZR) returns
Randoms == 0..2

\* the bit length generate_time_range_proofs asks range proofs for
RangeBits == 32

\* prove_range_proof: the two checks it makes before it builds the proof; of
\* the proof only the value and the bit length it is for are kept here
prove_range_proof(x_value, l, c) ==
    IF l > c.n THEN [ok |-> FALSE, error |-> "Bit length l must be <= n"]
    ELSE IF x_value >= 2 ^ l THEN [ok |-> FALSE, error |-> "Value x out of range"]
    ELSE [ok |-> TRUE, l |-> l, x |-> x_value]

\* StorageServer.generate_time_range_proofs
generate_time_range_proofs(storage, server_acc_keys, revoked_items, batch_id, f_current) ==
    IF batch_id \notin DOMAIN storage THEN [ok |-> FALSE, error |-> "Batch not found"]
    ELSE LET entry == storage[batch_id]
             t == entry.secrets.t
             pi_non == witness_or_dummy(server_acc_keys, f_current, entry.header.sigma,
                                        revoked_items)
             range_proofs == [k \in 1..Len(t) |-> prove_range_proof(t[k], RangeBits, crs)]
         IN  IF ~pi_non.ok THEN [ok |-> FALSE, error |-> pi_non.error]
             ELSE IF \E k \in 1..Len(t) : ~range_proofs[k].ok
             THEN [ok |-> FALSE,
                   error |-> range_proofs[CHOOSE k \in 1..Len(t) :
                                 /\ ~range_proofs[k].ok
                                 /\ \A j \in 1..(k - 1) : range_proofs[j].ok].error]
             ELSE [ok |-> TRUE,
                   time_proofs |-> [k \in 1..Len(t) |->
                                       [t_value |-> t[k], range_proof |-> range_proofs[k],
                                        pi_non |-> [w |-> pi_non.w, u |-> pi_non.u]]]]

\* storage[k] = v
Put(f, k, v) == [x \in (DOMAIN f) \cup {k} |-> IF x = k THEN v ELSE f[x]]

\* del storage[k]
Remove(f, k) == [x \in (DOMAIN f) \ {k} |-> f[x]]

\* StorageServer.store_batch: self.storage[batch_id] = (public_header, secrets_for_ss)
store_batch(storage, batch_id, public_header, secrets_for_ss) ==
    Put(storage, batch_id, [header |-> public_header, secrets |-> secrets_for_ss])

\* StorageServer.update_batch: add_server_key, add_revoked_item, delete the
\* old entry if there is one, store_batch of the new one
server_update_batch(storage, server_acc_keys, revoked_items, old_batch_id, g_s_q_new, sigma_bytes, new_batch_id, new_public_header, new_secrets_for_ss) ==
    [server_acc_keys |-> Append(server_acc_keys, g_s_q_new),
     revoked_items |-> Append(revoked_items, sigma_bytes),
     storage |-> store_batch(IF old_batch_id \in DOMAIN storage
                             THEN Remove(storage, old_batch_id) ELSE storage,
                             new_batch_id, new_public_header, new_secrets_for_ss)]

\* an owner that writes the new f into the dict it already holds
publish_in_place(heap, ref, global_pk) ==
    [heap |-> [heap EXCEPT ![ref] = global_pk], ref |-> ref]

\* self.global_pk = self._get_latest_global_pk() on the heap of dict
\* objects: the dict literal makes a new object and the attribute takes its
\* reference
assign_global_pk(heap, ref, global_pk) ==
    [heap |-> Append(heap, global_pk), ref |-> Len(heap) + 1]

\* the statements of StorageServer.update_batch, in order
UpdateStatements == << "add_server_key", "add_revoked_item", "delete", "store_batch" >>

\* update_batch recording the revoked item before the server key
update_batch_items_first(pc, storage, server_acc_keys, revoked_items, old_batch_id, g_s_q_new, sigma_bytes, new_batch_id, new_public_header, new_secrets_for_ss) ==
    [server_acc_keys |-> IF pc = "add_revoked_item" THEN Append(server_acc_keys, g_s_q_new)
                         ELSE server_acc_keys,
     revoked_items |-> IF pc = "add_server_key" THEN Append(revoked_items, sigma_bytes)
                       ELSE revoked_items,
     storage |-> IF pc = "delete" /\ old_batch_id \in DOMAIN storage
                 THEN Remove(storage, old_batch_id)
                 ELSE IF pc = "store_batch"
                 THEN store_batch(storage, new_batch_id, new_public_header,
                                  new_secrets_for_ss)
                 ELSE storage]

\* the server's fields after the statement named pc of
\* StorageServer.update_batch
update_batch_statement(pc, storage, server_acc_keys, revoked_items, old_batch_id, g_s_q_new, sigma_bytes, new_batch_id, new_public_header, new_secrets_for_ss) ==
    [server_acc_keys |-> IF pc = "add_server_key" THEN Append(server_acc_keys, g_s_q_new)
                         ELSE server_acc_keys,
     revoked_items |-> IF pc = "add_revoked_item" THEN Append(revoked_items, sigma_bytes)
                       ELSE revoked_items,
     storage |-> IF pc = "delete" /\ old_batch_id \in DOMAIN storage
                 THEN Remove(storage, old_batch_id)
                 ELSE IF pc = "store_batch"
                 THEN store_batch(storage, new_batch_id, new_public_header,
                                  new_secrets_for_ss)
                 ELSE storage]

\* ------------------------------------------------------------------------
\* Verifier (vds_verifier.py)

\* a faulty pre-check: the non-membership witness is never verified
precheck_without_accumulator(global_pk, public_header, pi_non) ==
    IF public_header.key # "C_data" THEN [ok |-> FALSE, C_data |-> PyList(<< >>)]
    ELSE IF ~verify_batch_signature(global_pk.vk_sig, public_header.data,
                                    public_header.C_time, public_header.sigma)
         THEN [ok |-> FALSE, C_data |-> PyList(<< >>)]
    ELSE [ok |-> TRUE, C_data |-> public_header.data]

\* Verifier._verify_precheck: [ok, C_data].  Every exception inside it,
\* the KeyError of public_header["C_data"] included, is caught and gives
\* (False, None).
verify_precheck(global_pk, public_header, pi_non) ==
    IF public_header.key # "C_data" THEN [ok |-> FALSE, C_data |-> PyList(<< >>)]
    ELSE IF ~verify_batch_signature(global_pk.vk_sig, public_header.data,
                                    public_header.C_time, public_header.sigma)
         THEN [ok |-> FALSE, C_data |-> PyList(<< >>)]
    ELSE IF ~verify_non_membership(global_pk.acc_pk, global_pk.f_current,
                                   serialize_signature(public_header.sigma), pi_non)
         THEN [ok |-> FALSE, C_data |-> PyList(<< >>)]
    ELSE [ok |-> TRUE, C_data |-> public_header.data]

RECURSIVE ChallengeProduct(_, _, _)
\* prod_{i<=k} g_hat_{n+1-i}^(t_i)
ChallengeProduct(t, k, c) ==
    IF k = 0 THEN Identity
    ELSE GMul(ChallengeProduct(t, k - 1, c), GExp(c.g_hat_list[c.n + 1 - k], t[k]))

\* a faulty equation (1): the right side is compared with itself
equation_1_rhs_only(C, t, x, pi_audit, c) ==
    LET rhs_1 == pair(pi_audit, c.g_hat)
        rhs_2 == GExp(pair(c.g_list[1], c.g_hat_list[c.n]), x)
    IN  GMul(rhs_1, rhs_2) = GMul(rhs_1, rhs_2)

\* equation (1) in its aggregated form:
\* e(C, prod g_hat_{n+1-i}^(t_i)) = e(pi_audit, g_hat) * e(g_1, g_hat_n)^x
equation_1(C, t, x, pi_audit, c) ==
    LET lhs == pair(C, ChallengeProduct(t, c.n, c))
        rhs_1 == pair(pi_audit, c.g_hat)
        rhs_2 == GExp(pair(c.g_list[1], c.g_hat_list[c.n]), x)
    IN  lhs = GMul(rhs_1, rhs_2)

\* the pairing check that ends both verify_dc_query and verify_da_audit:
\* "True", "False", or "raise" when the call raises (a challenge shorter than
\* n is indexed out of range; the pairing of a list with one element of G2 is
\* refused by the pairing library)
vc_check(C_data, t, x, pi_audit) ==
    IF Len(t) < crs.n THEN "raise"
    ELSE IF C_data.kind = "list" THEN "raise"
    ELSE IF equation_1(C_data.elems[1], t, x, pi_audit, crs) THEN "True"
    ELSE "False"

\* Verifier.verify_dc_query
verify_dc_query(global_pk, public_header, t_challenge_vector, x_result, pi_audit, pi_non) ==
    LET pre == verify_precheck(global_pk, public_header, pi_non)
    IN  IF ~pre.ok THEN "False"
        ELSE vc_check(pre.C_data, t_challenge_vector, x_result, pi_audit)

\* Verifier.verify_dc_query called with column_index as a further argument,
\* as tests/test_multidim_vds.py and distributed/verifier_server.py call it:
\* the method takes (public_header, t_challenge_vector, x_result, pi_audit,
\* pi_non) and no column_index, so the call is a TypeError before the body
\* runs
verify_dc_query_column(global_pk, public_header, t_challenge_vector, x_result, pi_audit, pi_non, column_index) ==
    "raise"

\* a faulty audit: the provided challenge is compared in length only
audit_without_challenge_check(global_pk, public_header, n, x_result_random, pi_audit_zk, t_challenge_zk_provided, pi_non) ==
    LET pre == verify_precheck(global_pk, public_header, pi_non)
    IN  IF ~pre.ok THEN "False"
        ELSE IF Len(H_t(pre.C_data, n)) # Len(t_challenge_zk_provided) THEN "False"
        ELSE vc_check(pre.C_data, H_t(pre.C_data, n), x_result_random, pi_audit_zk)

\* Verifier.verify_da_audit
verify_da_audit(global_pk, public_header, n, x_result_random, pi_audit_zk, t_challenge_zk_provided, pi_non) ==
    LET pre == verify_precheck(global_pk, public_header, pi_non)
    IN  IF ~pre.ok THEN "False"
        ELSE LET t_challenge_zk_local == H_t(pre.C_data, n)
             IN  IF Len(t_challenge_zk_local) # Len(t_challenge_zk_provided) THEN "False"
                 ELSE IF \E i \in 1..n : t_challenge_zk_local[i] # t_challenge_zk_provided[i]
                      THEN "False"
                 ELSE vc_check(pre.C_data, t_challenge_zk_local, x_result_random, pi_audit_zk)

\* ------------------------------------------------------------------------
\* State

\* the accumulator exercised on its own
VARIABLES acc_f, acc_server_keys, acc_X, acc_proof, acc_verdict

\* DataOwner.current_f, .update_count, .server_acc_keys, .global_pk
VARIABLES do_current_f, do_update_count, do_server_acc_keys, do_global_pk

\* StorageServer.storage, .server_acc_keys, .revoked_items
VARIABLES ss_storage, ss_server_acc_keys, ss_revoked_items

\* Verifier.current_global_pk
VARIABLE v_current_global_pk

\* what the callers hold: the returns of create_batch and of revoke_batch in
\* call order, the number of random scalars drawn so far, the proof last
\* returned by the Storage Server, and the return of the last verification
VARIABLES batches, revocations, rnd, proof, verdict

\* the last call of a Data Owner method as its caller saw it, and the
\* revoke_batch requests in flight at the Data Owner's HTTP server
VARIABLES do_call, requests

\* what the callers of DataOwner.update_batch hold: for each call that
\* returned, the batch it replaced, the batch it created and its revocation
VARIABLE updates

\* the POST /update_batch request in progress at the Storage Server's HTTP
\* server: the statement of StorageServer.update_batch it is at, the update
\* it carries, and the server's fields when it arrived
VARIABLE ss_update

\* the distributed deployment (distributed/): per server process the
\* DEV_MODE environment variable it was started with and the dev_mode its
\* Config read from it, the Data Owner server's do_state, the last response
\* of its /init or /get_crs, and the Storage Server's ss_state after /init
VARIABLES config, do_state, response, ss_state

\* the global_pk dict objects made so far, and the references to them that
\* the Data Owner (self.global_pk), the Verifier (self.current_global_pk)
\* and the callers of revoke_batch (its return values) hold
VARIABLES pk_heap, pk_refs

\* a call of prove_range_proof and of verify_range_proof on what it returned
VARIABLE range_run

accVars == << acc_f, acc_server_keys, acc_X, acc_proof, acc_verdict >>

doVars == << do_current_f, do_update_count, do_server_acc_keys, do_global_pk >>

ssVars == << ss_storage, ss_server_acc_keys, ss_revoked_items >>

protoVars == << doVars, ssVars, v_current_global_pk, batches, revocations, rnd, proof, verdict >>

callVars == << do_call, requests, updates >>

distVars == << config, do_state, response, ss_state >>

objVars == << pk_heap, pk_refs >>

rangeVars == << range_run >>

extVars == << ss_update, distVars, objVars, rangeVars >>

vars == << accVars, protoVars, callVars, extVars >>

Items == [r : 0..MaxItemId]

NoProof == [item |-> [r |-> 0], called |-> FALSE, pi |-> [ok |-> FALSE, error |-> "none"]]

NoVerdict == [checked |-> FALSE, item |-> [r |-> 0], accepted |-> FALSE]

NoDataProof == [kind |-> "none"]

NoResult == [op |-> "none"]

NoCall == [op |-> "none"]

EmptyMap == [x \in {} |-> 0]

\* Accumulator.setup, DataOwner.__init__, StorageServer.__init__ and
\* Verifier.__init__ with the owner's initial global_pk and server keys
\* ------------------------------------------------------------------------
\* Configuration and serialisation of the distributed deployment
\* (distributed/config.py, distributed/serialization.py)

Servers == {"do", "ss"}

NotStarted == [started |-> FALSE]

NoResponse == [route |-> "none"]

\* DEV_MODE is not in the environment
NotSet == "<not set>"

\* values of the environment variable DEV_MODE
EnvValues == {NotSet, "true", "True", "TRUE", "false", "False", "1", ""}

\* os.getenv(name, default) on an environment holding value for name
getenv(value, default) == IF value = NotSet THEN default ELSE value

\* str.lower on the values of DEV_MODE
lower(value) ==
    CASE value \in {"True", "TRUE"} -> "true"
      [] value = "False" -> "false"
      [] OTHER -> value

\* DEV_MODE as config.py computes it when the module is imported
DEV_MODE(value) == lower(getenv(value, "true")) = "true"

\* Config() of a process started with DEV_MODE = value
Config(value) == [started |-> TRUE, env |-> value, dev_mode |-> DEV_MODE(value)]

\* the trapdoor alpha of the CRS, which the exponent polynomials leave symbolic
Trapdoor == "alpha"

\* the dict keygen_crs returns: the CRS and the entry 'alpha'
crs_dict(n) ==
    [key \in DOMAIN keygen_crs(n) \cup {"alpha"} |->
        IF key = "alpha" THEN Trapdoor ELSE keygen_crs(n)[key]]

\* serialize_g1, serialize_g2, serialize_zr: base64 of the element's bytes
serialize_element(kind, x) == [kind |-> kind, b64 |-> x]

deserialize_element(kind, data) == IF data.kind = kind THEN data.b64 ELSE << >>

serialize_crs(c, dev_mode) ==
    LET keys == {"n", "g", "g_hat", "g_list", "g_hat_list"}
                    \cup (IF dev_mode /\ "alpha" \in DOMAIN c
                          THEN {"alpha", "_dev_mode_warning"} ELSE {})
    IN  [key \in keys |->
            CASE key = "n" -> c.n
              [] key = "g" -> serialize_element("G1", c.g)
              [] key = "g_hat" -> serialize_element("G2", c.g_hat)
              [] key = "g_list" ->
                    [k \in DOMAIN c.g_list |-> serialize_element("G1", c.g_list[k])]
              [] key = "g_hat_list" ->
                    [k \in DOMAIN c.g_hat_list |-> serialize_element("G2", c.g_hat_list[k])]
              [] key = "alpha" -> serialize_element("ZR", c.alpha)
              [] OTHER -> "DEVELOPMENT MODE: alpha included (INSECURE!)"]

deserialize_crs(data) ==
    LET keys == {"n", "g", "g_hat", "g_list", "g_hat_list"}
                    \cup (IF "alpha" \in DOMAIN data THEN {"alpha"} ELSE {})
    IN  [key \in keys |->
            CASE key = "n" -> data.n
              [] key = "g" -> deserialize_element("G1", data.g)
              [] key = "g_hat" -> deserialize_element("G2", data.g_hat)
              [] key = "g_list" ->
                    [k \in DOMAIN data.g_list |-> deserialize_element("G1", data.g_list[k])]
              [] key = "g_hat_list" ->
                    [k \in DOMAIN data.g_hat_list |->
                        deserialize_element("G2", data.g_hat_list[k])]
              [] OTHER -> deserialize_element("ZR", data.alpha)]

Init ==
    /\ acc_f = setup.f_initial
    /\ acc_server_keys = setup.server_keys
    /\ acc_X = << >>
    /\ acc_proof = NoProof
    /\ acc_verdict = NoVerdict
    /\ do_current_f = setup.f_initial
    /\ do_update_count = 0
    /\ do_server_acc_keys = setup.server_keys
    /\ do_global_pk = get_latest_global_pk(setup.f_initial)
    /\ ss_storage = EmptyMap
    /\ ss_server_acc_keys = setup.server_keys
    /\ ss_revoked_items = << >>
    /\ v_current_global_pk = get_latest_global_pk(setup.f_initial)
    /\ batches = << >>
    /\ revocations = << >>
    /\ rnd = 0
    /\ proof = NoDataProof
    /\ verdict = NoResult
    /\ do_call = NoCall
    /\ requests = << >>
    /\ updates = << >>
    /\ ss_update = [pc |-> "idle", u |-> 0,
                    before |-> << EmptyMap, setup.server_keys, << >> >>]
    /\ config = [server \in Servers |-> NotStarted]
    /\ do_state = [initialized |-> FALSE]
    /\ response = NoResponse
    /\ ss_state = [initialized |-> FALSE]
    /\ pk_heap = << get_latest_global_pk(setup.f_initial) >>
    /\ pk_refs = [do |-> 1, verifier |-> 1, returned |-> << >>]
    /\ range_run = NoRun

\* ------------------------------------------------------------------------
\* The accumulator on its own: a blacklist that grows by revocations, and a
\* caller that asks for witnesses of arbitrary items and verifies them.

\* one revocation: add_to_blacklist, expand_server_keys, and the item joins X
AccRevoke(item) ==
    /\ Len(acc_X) < MaxAccRevocations
    /\ acc_f' = add_to_blacklist(acc_sk, acc_f, item)
    /\ acc_server_keys' = expand_server_keys(acc_sk, acc_server_keys, Len(acc_X) + 1)[1]
    /\ acc_X' = Append(acc_X, item)
    /\ acc_proof' = NoProof
    /\ acc_verdict' = NoVerdict
    /\ UNCHANGED << protoVars, callVars, extVars >>

AccProve(item) ==
    /\ acc_proof' = [item |-> item, called |-> TRUE,
                     pi |-> prove_non_membership(acc_server_keys, acc_f, item, acc_X)]
    /\ acc_verdict' = NoVerdict
    /\ UNCHANGED << acc_f, acc_server_keys, acc_X >>
    /\ UNCHANGED << protoVars, callVars, extVars >>

AccVerify ==
    /\ acc_proof.called
    /\ acc_proof.pi.ok
    /\ ~acc_verdict.checked
    /\ acc_verdict' = [checked |-> TRUE, item |-> acc_proof.item,
                       accepted |-> verify_non_membership(acc_pk, acc_f, acc_proof.item,
                                                          acc_proof.pi)]
    /\ UNCHANGED << acc_f, acc_server_keys, acc_X, acc_proof >>
    /\ UNCHANGED << protoVars, callVars, extVars >>

AccNext ==
    \/ \E item \in Items : AccRevoke(item)
    \/ \E item \in Items : AccProve(item)
    \/ AccVerify

SpecAcc == Init /\ [][AccNext]_vars

\* ------------------------------------------------------------------------
\* The protocol: the Data Owner creates and revokes batches, the Storage
\* Server stores them, mirrors the revocations and answers queries, the
\* Verifier follows the published global_pk and verifies.

ColumnA == [i \in 1..N |-> i]

ColumnB == [i \in 1..N |-> (2 * i + 1) % P]

\* the data matrices handed to create_batch: one column, two columns
Matrices == {<< ColumnA >>, << ColumnA, ColumnB >>}

TimeVector == [i \in 1..N |-> i]

\* the DC challenges: all weights non-zero, and weight zero at position 1
Challenges == {[i \in 1..N |-> 1], [i \in 1..N |-> i - 1]}

\* the k-th random scalar drawn from now on (self.group.random(ZR)): a fresh
\* value, no two draws of a run coincide
Draw(k) == (rnd + k) % P

\* the caller keeps what create_batch returned, unless it raised
Created(b) ==
    /\ b.ok
    /\ batches' = Append(batches, b)

\* DataOwner.create_batch; nothing of the owner's accumulator state changes
CreateBatch(m_matrix) ==
    /\ verdict = NoResult
    /\ Len(batches) < MaxBatches
    /\ rnd + 1 + Len(m_matrix) < P
    /\ Created(create_batch(m_matrix, TimeVector,
                            [k \in 1..(Len(m_matrix) + 1) |-> Draw(k)], Len(batches) + 1))
    /\ rnd' = rnd + 1 + Len(m_matrix)
    /\ UNCHANGED << doVars, ssVars, v_current_global_pk, revocations, proof, verdict >>
    /\ UNCHANGED << extVars, accVars, callVars >>

\* StorageServer.store_batch with what create_batch returned
StoreBatch(i) ==
    /\ verdict = NoResult
    /\ i \in 1..Len(batches)
    /\ ss_storage' = store_batch(ss_storage, batches[i].batch_id,
                                 batches[i].public_header, batches[i].secrets_for_ss)
    /\ UNCHANGED << doVars, ss_server_acc_keys, ss_revoked_items, v_current_global_pk,
                    batches, revocations, rnd, proof, verdict >>
    /\ UNCHANGED << extVars, accVars, callVars >>

\* the assignments of revoke_batch, and the caller keeps what it returned
Revoked(r) ==
    /\ do_current_f' = r.current_f
    /\ do_update_count' = r.update_count
    /\ do_server_acc_keys' = r.server_acc_keys
    /\ do_global_pk' = r.global_pk
    /\ revocations' = Append(revocations, r.returned)

\* DataOwner.revoke_batch on the signature of batch i
RevokeBatch(i) ==
    /\ verdict = NoResult
    /\ i \in 1..Len(batches)
    /\ Len(revocations) < MaxRevocations
    /\ Revoked(revoke_batch(do_current_f, do_update_count, do_server_acc_keys,
                            batches[i].public_header.sigma))
    /\ UNCHANGED << ssVars, v_current_global_pk, batches, rnd, proof, verdict >>
    /\ UNCHANGED << extVars, accVars, callVars >>

\* StorageServer.add_server_key with the next g_s_q_new not yet received
AddServerKey ==
    /\ verdict = NoResult
    /\ Len(ss_server_acc_keys) <= Len(revocations)
    /\ ss_server_acc_keys' =
           Append(ss_server_acc_keys, revocations[Len(ss_server_acc_keys)].g_s_q_new)
    /\ UNCHANGED << doVars, ss_storage, ss_revoked_items, v_current_global_pk,
                    batches, revocations, rnd, proof, verdict >>
    /\ UNCHANGED << extVars, accVars, callVars >>

\* StorageServer.add_revoked_item with the next sigma_bytes not yet received
AddRevokedItem ==
    /\ verdict = NoResult
    /\ Len(ss_revoked_items) < Len(revocations)
    /\ ss_revoked_items' =
           Append(ss_revoked_items, revocations[Len(ss_revoked_items) + 1].sigma_bytes)
    /\ UNCHANGED << doVars, ss_storage, ss_server_acc_keys, v_current_global_pk,
                    batches, revocations, rnd, proof, verdict >>
    /\ UNCHANGED << extVars, accVars, callVars >>

\* Verifier.update_global_pk with a global_pk that revoke_batch returned
UpdateGlobalPk(i) ==
    /\ verdict = NoResult
    /\ i \in 1..Len(revocations)
    /\ v_current_global_pk' = revocations[i].global_pk
    /\ UNCHANGED << doVars, ssVars, batches, revocations, rnd, proof, verdict >>
    /\ UNCHANGED << extVars, accVars, callVars >>

\* the Storage Server rewrites one entry of a stored data column
Tamper(i, column_index, k) ==
    /\ verdict = NoResult
    /\ i \in 1..Len(batches)
    /\ batches[i].batch_id \in DOMAIN ss_storage
    /\ ss_storage[batches[i].batch_id].secrets = batches[i].secrets_for_ss
    /\ column_index < Len(batches[i].secrets_for_ss.m_matrix)
    /\ ss_storage' = [ss_storage EXCEPT
           ![batches[i].batch_id].secrets.m_matrix[column_index + 1][k] = (@ + 1) % P]
    /\ UNCHANGED << doVars, ss_server_acc_keys, ss_revoked_items, v_current_global_pk,
                    batches, revocations, rnd, proof, verdict >>
    /\ UNCHANGED << extVars, accVars, callVars >>

\* positions of column column_index of batch i whose stored value is not the
\* one the Data Owner committed to
Changed(i, column_index) ==
    {k \in 1..N : ss_storage[batches[i].batch_id].secrets.m_matrix[column_index + 1][k]
                      # batches[i].secrets_for_ss.m_matrix[column_index + 1][k]}

\* what the caller keeps of a proof: the returned (x, pi_audit, pi_non) and
\* challenge, the request it answers, how many revocations the Data Owner had
\* made by then, and the positions of the column that were not the original
HeldProof(kind, i, column_index, r) ==
    [kind |-> kind, batch |-> i, column_index |-> column_index, t |-> r.t, x |-> r.x,
     pi_audit |-> r.pi_audit, pi_non |-> r.pi_non, epoch |-> Len(revocations),
     changed |-> Changed(i, column_index)]

\* the caller keeps the proof, unless the generator raised
Hold(kind, i, column_index, r) ==
    /\ r.ok
    /\ proof' = HeldProof(kind, i, column_index, r)

\* StorageServer.generate_dc_data_proof, called with the published f_current
GenerateDcProof(i, column_index, t) ==
    /\ verdict = NoResult
    /\ i \in 1..Len(batches)
    /\ Hold("dc", i, column_index,
            generate_dc_data_proof(ss_storage, ss_server_acc_keys, ss_revoked_items,
                                   batches[i].batch_id, t, do_global_pk.f_current,
                                   column_index))
    /\ UNCHANGED << doVars, ssVars, v_current_global_pk, batches, revocations, rnd, verdict >>
    /\ UNCHANGED << extVars, accVars, callVars >>

\* StorageServer.generate_da_audit_proof
GenerateDaProof(i, column_index) ==
    /\ verdict = NoResult
    /\ i \in 1..Len(batches)
    /\ Hold("da", i, column_index,
            generate_da_audit_proof(ss_storage, ss_server_acc_keys, ss_revoked_items,
                                    batches[i].batch_id, do_global_pk.f_current,
                                    column_index))
    /\ UNCHANGED << doVars, ssVars, v_current_global_pk, batches, revocations, rnd, verdict >>
    /\ UNCHANGED << extVars, accVars, callVars >>

\* the header create_batch returned for batch i
HonestHeader(i) == batches[i].public_header

\* the header of batch i under the key the Verifier reads, holding the whole
\* signed list of column commitments
RelabelledHeader(i) == [HonestHeader(i) EXCEPT !.key = "C_data"]

\* the header of batch i under the key the Verifier reads, holding the one
\* commitment of the queried column
ColumnHeader(i, column_index) ==
    [key |-> "C_data",
     data |-> PyElem(HonestHeader(i).data.elems[column_index + 1]),
     C_time |-> HonestHeader(i).C_time, sigma |-> HonestHeader(i).sigma]

\* the headers a caller can present for batch i
HeadersOf(i) ==
    {HonestHeader(i), RelabelledHeader(i)}
        \cup {ColumnHeader(i, column_index) :
                  column_index \in 0..(Len(HonestHeader(i).data.elems) - 1)}

\* the headers of all batches created so far
Headers == UNION {HeadersOf(i) : i \in 1..Len(batches)}

\* Verifier.verify_dc_query on the held proof
VerifyDc(h) ==
    /\ verdict = NoResult
    /\ proof.kind = "dc"
    /\ verdict' = [op |-> "verify_dc_query", header |-> h, t |-> proof.t,
                   result |-> verify_dc_query(v_current_global_pk, h, proof.t, proof.x,
                                              proof.pi_audit, proof.pi_non)]
    /\ UNCHANGED << doVars, ssVars, v_current_global_pk, batches, revocations, rnd, proof >>
    /\ UNCHANGED << extVars, accVars, callVars >>

\* the challenge a caller passes as t_challenge_zk_provided: the one that
\* came with the proof, that one cut short, or that one with an entry changed
Provided(t, variant) ==
    IF variant = "same" THEN t
    ELSE IF variant = "short" THEN SubSeq(t, 1, Len(t) - 1)
    ELSE [t EXCEPT ![1] = (@ + 1) % P]

\* Verifier.verify_da_audit on the held proof
VerifyDa(h, variant) ==
    /\ verdict = NoResult
    /\ proof.kind = "da"
    /\ verdict' = [op |-> "verify_da_audit", header |-> h, t |-> Provided(proof.t, variant),
                   result |-> verify_da_audit(v_current_global_pk, h, crs.n, proof.x,
                                              proof.pi_audit, Provided(proof.t, variant),
                                              proof.pi_non)]
    /\ UNCHANGED << doVars, ssVars, v_current_global_pk, batches, revocations, rnd, proof >>
    /\ UNCHANGED << extVars, accVars, callVars >>

\* Verifier.verify_da_audit on what a Storage Server returns that answers
\* the audit with a proof for a challenge of its own choice (the held DC
\* proof) and passes that challenge as t_challenge_zk_provided
VerifyDaForged(h) ==
    /\ verdict = NoResult
    /\ proof.kind = "dc"
    /\ verdict' = [op |-> "verify_da_audit", header |-> h, t |-> proof.t,
                   result |-> verify_da_audit(v_current_global_pk, h, crs.n, proof.x,
                                              proof.pi_audit, proof.t, proof.pi_non)]
    /\ UNCHANGED << doVars, ssVars, v_current_global_pk, batches, revocations, rnd, proof >>
    /\ UNCHANGED << extVars, accVars, callVars >>

\* Verifier.verify_dc_query(public_header, t, x, pi_audit, pi_non,
\* column_index = the column the held proof is for) on the header
\* create_batch returned
VerifyDcColumn ==
    /\ verdict = NoResult
    /\ proof.kind = "dc"
    /\ verdict' = [op |-> "verify_dc_query with column_index",
                   header |-> HonestHeader(proof.batch), t |-> proof.t,
                   column_index |-> proof.column_index,
                   result |-> verify_dc_query_column(
                                  v_current_global_pk, HonestHeader(proof.batch), proof.t,
                                  proof.x, proof.pi_audit, proof.pi_non,
                                  proof.column_index)]
    /\ UNCHANGED << doVars, ssVars, v_current_global_pk, batches, revocations, rnd, proof >>
    /\ UNCHANGED << extVars, accVars, callVars >>

\* the caller of the verification takes its result; the next call follows
Resume ==
    /\ verdict # NoResult
    /\ verdict' = NoResult
    /\ UNCHANGED << doVars, ssVars, v_current_global_pk, batches, revocations, rnd, proof >>
    /\ UNCHANGED << extVars, accVars, callVars >>

\* a header put together from two batches i # j: the data commitments of i,
\* the time commitment of j, the signature of either
MixedHeaders ==
    UNION {{[h EXCEPT !.C_time = HonestHeader(x[2]).C_time,
                      !.sigma = HonestHeader(x[3]).sigma] : h \in HeadersOf(x[1])} :
              x \in {y \in (1..Len(batches)) \X (1..Len(batches)) \X (1..Len(batches)) :
                        y[1] # y[2] /\ y[3] \in {y[1], y[2]}}}

AllOnes == [i \in 1..N |-> 1]

\* Revocation life cycle: batches are created, stored, queried, audited and
\* revoked; the Storage Server and the Verifier follow the revocations at
\* their own pace.
Next ==
    \/ \E m_matrix \in Matrices : CreateBatch(m_matrix)
    \/ \E i \in 1..MaxBatches : StoreBatch(i)
    \/ \E i \in 1..MaxBatches : RevokeBatch(i)
    \/ AddServerKey
    \/ AddRevokedItem
    \/ \E i \in 1..MaxRevocations : UpdateGlobalPk(i)
    \/ \E i \in 1..MaxBatches, column_index \in 0..1 : GenerateDcProof(i, column_index, AllOnes)
    \/ \E i \in 1..MaxBatches, column_index \in 0..1 : GenerateDaProof(i, column_index)
    \/ \E h \in Headers : VerifyDc(h)
    \/ \E h \in Headers : VerifyDa(h, "same")
    \/ Resume

Spec == Init /\ [][Next]_vars

\* Queries and audits without revocation: the Storage Server may rewrite
\* what it stores, the caller may present any header and any challenge.
QueryNext ==
    \/ \E m_matrix \in Matrices : CreateBatch(m_matrix)
    \/ \E i \in 1..MaxBatches : StoreBatch(i)
    \/ \E i \in 1..MaxBatches, column_index \in 0..1, k \in 1..N : Tamper(i, column_index, k)
    \/ \E i \in 1..MaxBatches, column_index \in 0..1, t \in Challenges :
           GenerateDcProof(i, column_index, t)
    \/ \E i \in 1..MaxBatches, column_index \in 0..1 : GenerateDaProof(i, column_index)
    \/ \E h \in Headers \cup MixedHeaders : VerifyDc(h)
    \/ \E h \in Headers \cup MixedHeaders, variant \in {"same", "short", "other"} :
           VerifyDa(h, variant)
    \/ \E h \in Headers : VerifyDaForged(h)
    \/ VerifyDcColumn
    \/ Resume

SpecQuery == Init /\ [][QueryNext]_vars

\* ------------------------------------------------------------------------
\* Updates: the Data Owner replaces batches by update_batch, the Storage
\* Server applies the updates in the order they were made.

\* the owner's fields after update_batch, and the record of the call
OwnerUpdated(r, error) ==
    /\ do_call' = [op |-> "update_batch", raised |-> ~r.ok, error |-> error,
                   before |-> doVars]
    /\ do_current_f' = r.current_f
    /\ do_update_count' = r.update_count
    /\ do_server_acc_keys' = r.server_acc_keys
    /\ do_global_pk' = r.global_pk

\* what the caller keeps of update_batch: nothing when it raised
UpdateReturned(i, r) ==
    IF r.ok
    THEN /\ batches' = Append(batches, r.created)
         /\ revocations' = Append(revocations, r.returned)
         /\ updates' = Append(updates, [old |-> i, new |-> Len(batches) + 1,
                                         revocation |-> Len(revocations) + 1])
         /\ rnd' = rnd + 1 + Len(r.created.secrets_for_ss.m_matrix)
    ELSE UNCHANGED << batches, revocations, updates, rnd >>

\* DataOwner.update_batch on the header of batch i
OwnerUpdateBatch(i, new_m_matrix, new_t_vector) ==
    /\ verdict = NoResult
    /\ i \in 1..Len(batches)
    /\ do_update_count < MaxRevocations
    /\ rnd + 1 + Len(new_m_matrix) < P
    /\ \E r \in {owner_update_batch(do_current_f, do_update_count, do_server_acc_keys,
                                     batches[i].public_header, new_m_matrix, new_t_vector,
                                     [k \in 1..(Len(new_m_matrix) + 1) |-> Draw(k)],
                                     Len(batches) + 1)} :
           OwnerUpdated(r, r.error) /\ UpdateReturned(i, r)
    /\ UNCHANGED << ssVars, v_current_global_pk, proof, verdict, requests >>
    /\ UNCHANGED << extVars, accVars >>

\* the Storage Server's fields after update_batch
ServerUpdated(r) ==
    /\ ss_storage' = r.storage
    /\ ss_server_acc_keys' = r.server_acc_keys
    /\ ss_revoked_items' = r.revoked_items

\* StorageServer.update_batch with what the u-th update_batch returned
ServerUpdateBatch(u) ==
    /\ verdict = NoResult
    /\ u \in 1..Len(updates)
    /\ updates[u].revocation = Len(ss_server_acc_keys)
    /\ updates[u].revocation = Len(ss_revoked_items) + 1
    /\ ServerUpdated(server_update_batch(
           ss_storage, ss_server_acc_keys, ss_revoked_items,
           batches[updates[u].old].batch_id,
           revocations[updates[u].revocation].g_s_q_new,
           revocations[updates[u].revocation].sigma_bytes,
           batches[updates[u].new].batch_id,
           batches[updates[u].new].public_header,
           batches[updates[u].new].secrets_for_ss))
    /\ UNCHANGED << doVars, v_current_global_pk, batches, revocations, rnd, proof, verdict >>
    /\ UNCHANGED << extVars, accVars, callVars >>

\* what the caller keeps of a proof request: the proof and the request it
\* answers, or the request and the message of the error raised, and in both
\* cases whether the Storage Server had the batch by then, how many
\* revocations the Data Owner had made, and how many server keys and revoked
\* items the Storage Server held
RequestedProof(kind, i, column_index, t, r) ==
    IF r.ok
    THEN [kind |-> kind, op |-> kind, batch |-> i, column_index |-> column_index,
          t |-> r.t, x |-> r.x, pi_audit |-> r.pi_audit, pi_non |-> r.pi_non,
          known |-> batches[i].batch_id \in DOMAIN ss_storage,
          epoch |-> Len(revocations), keys |-> Len(ss_server_acc_keys),
          items |-> Len(ss_revoked_items), during |-> ss_update.pc]
    ELSE [kind |-> "raise", op |-> kind, batch |-> i, column_index |-> column_index,
          t |-> t, error |-> r.error,
          known |-> batches[i].batch_id \in DOMAIN ss_storage,
          epoch |-> Len(revocations), keys |-> Len(ss_server_acc_keys),
          items |-> Len(ss_revoked_items), during |-> ss_update.pc]

\* what the caller keeps of a request for time range proofs
RequestedRangeProofs(i, r) ==
    IF r.ok
    THEN [kind |-> "range", op |-> "range", batch |-> i, time_proofs |-> r.time_proofs,
          known |-> batches[i].batch_id \in DOMAIN ss_storage,
          epoch |-> Len(revocations), keys |-> Len(ss_server_acc_keys),
          items |-> Len(ss_revoked_items), during |-> ss_update.pc]
    ELSE [kind |-> "raise", op |-> "range", batch |-> i, error |-> r.error,
          known |-> batches[i].batch_id \in DOMAIN ss_storage,
          epoch |-> Len(revocations), keys |-> Len(ss_server_acc_keys),
          items |-> Len(ss_revoked_items), during |-> ss_update.pc]

\* StorageServer.generate_dc_data_proof as its caller sees it: a proof or an
\* error
RequestDcProof(i, column_index, t) ==
    /\ verdict = NoResult
    /\ i \in 1..Len(batches)
    /\ proof' = RequestedProof("dc", i, column_index, t,
                     generate_dc_data_proof(ss_storage, ss_server_acc_keys,
                                            ss_revoked_items, batches[i].batch_id, t,
                                            do_global_pk.f_current, column_index))
    /\ UNCHANGED << doVars, ssVars, v_current_global_pk, batches, revocations, rnd, verdict >>
    /\ UNCHANGED << extVars, accVars, callVars >>

\* StorageServer.generate_da_audit_proof as its caller sees it
RequestDaProof(i, column_index) ==
    /\ verdict = NoResult
    /\ i \in 1..Len(batches)
    /\ proof' = RequestedProof("da", i, column_index, << >>,
                     generate_da_audit_proof(ss_storage, ss_server_acc_keys,
                                             ss_revoked_items, batches[i].batch_id,
                                             do_global_pk.f_current, column_index))
    /\ UNCHANGED << doVars, ssVars, v_current_global_pk, batches, revocations, rnd, verdict >>
    /\ UNCHANGED << extVars, accVars, callVars >>

\* StorageServer.generate_time_range_proofs as its caller sees it
RequestTimeRangeProofs(i) ==
    /\ verdict = NoResult
    /\ i \in 1..Len(batches)
    /\ proof' = RequestedRangeProofs(i,
                     generate_time_range_proofs(ss_storage, ss_server_acc_keys,
                                                ss_revoked_items, batches[i].batch_id,
                                                do_global_pk.f_current))
    /\ UNCHANGED << doVars, ssVars, v_current_global_pk, batches, revocations, rnd, verdict >>
    /\ UNCHANGED << extVars, accVars, callVars >>

\* batches are created, stored, updated, queried
UpdateNext ==
    \/ CreateBatch(<< ColumnA >>)
    \/ \E i \in 1..Len(batches) : StoreBatch(i)
    \/ \E i \in 1..Len(batches), new_m_matrix \in Matrices :
           OwnerUpdateBatch(i, new_m_matrix, TimeVector)
    \/ \E u \in 1..MaxRevocations : ServerUpdateBatch(u)
    \/ \E i \in 1..MaxRevocations : UpdateGlobalPk(i)
    \/ \E i \in 1..Len(batches), column_index \in 0..1 :
           RequestDcProof(i, column_index, AllOnes)
    \/ \E h \in Headers : VerifyDc(h)
    \/ Resume

SpecUpdate == Init /\ [][UpdateNext]_vars

\* a challenge vector one entry short
ShortChallenge == [i \in 1..(N - 1) |-> 1]

\* Proof requests of any shape against a Storage Server that follows the
\* revocations at its own pace.
SyncNext ==
    \/ \E m_matrix \in Matrices : CreateBatch(m_matrix)
    \/ \E i \in 1..MaxBatches : StoreBatch(i)
    \/ \E i \in 1..MaxBatches : RevokeBatch(i)
    \/ AddServerKey
    \/ AddRevokedItem
    \/ \E i \in 1..MaxBatches, column_index \in (0 - 1)..2 :
           RequestDcProof(i, column_index, AllOnes)
    \/ \E i \in 1..MaxBatches : RequestDcProof(i, 0, ShortChallenge)
    \/ \E i \in 1..MaxBatches, column_index \in {0, 2} : RequestDaProof(i, column_index)
    \/ \E i \in 1..MaxBatches : RequestTimeRangeProofs(i)

SpecSync == Init /\ [][SyncNext]_vars

\* ------------------------------------------------------------------------
\* The Data Owner alone: its methods called with valid and invalid
\* arguments, and with calls that fail inside revoke_batch.

\* a column one entry short
ShortColumn == [i \in 1..(N - 1) |-> 1]

\* matrices create_batch rejects: no column, a column that is too short
BadMatrices == {<< >>, << ColumnA, ShortColumn >>}

\* time vectors: of length n, one entry short
TimeVectors == {TimeVector, ShortColumn}

\* the caller keeps what create_batch returned, unless it raised
CreateReturned(b) ==
    IF b.ok
    THEN /\ batches' = Append(batches, b)
         /\ rnd' = rnd + 1 + Len(b.secrets_for_ss.m_matrix)
    ELSE UNCHANGED << batches, rnd >>

\* a faulty create_batch: it counts the batch as an update of the owner's
\* accumulator state
CreateBatchCounted(m_matrix, t_vector) ==
    /\ verdict = NoResult
    /\ Len(batches) < MaxBatches
    /\ rnd + 1 + Len(m_matrix) < P
    /\ \E b \in {create_batch(m_matrix, t_vector,
                                [k \in 1..(Len(m_matrix) + 1) |-> Draw(k)],
                                Len(batches) + 1)} :
           /\ CreateReturned(b)
           /\ do_call' = [op |-> "create_batch", raised |-> ~b.ok,
                          error |-> IF b.ok THEN "" ELSE b.error, before |-> doVars]
           /\ do_update_count' = IF b.ok THEN do_update_count + 1 ELSE do_update_count
    /\ UNCHANGED << do_current_f, do_server_acc_keys, do_global_pk >>
    /\ UNCHANGED << ssVars, v_current_global_pk, revocations, proof, verdict >>
    /\ UNCHANGED << extVars, accVars, requests, updates >>

\* DataOwner.create_batch as its caller sees it: a batch or a ValueError
OwnerCreateBatch(m_matrix, t_vector) ==
    /\ verdict = NoResult
    /\ Len(batches) < MaxBatches
    /\ rnd + 1 + Len(m_matrix) < P
    /\ \E b \in {create_batch(m_matrix, t_vector,
                                [k \in 1..(Len(m_matrix) + 1) |-> Draw(k)],
                                Len(batches) + 1)} :
           /\ CreateReturned(b)
           /\ do_call' = [op |-> "create_batch", raised |-> ~b.ok,
                          error |-> IF b.ok THEN "" ELSE b.error, before |-> doVars]
    /\ UNCHANGED << doVars, ssVars, v_current_global_pk, revocations, proof, verdict >>
    /\ UNCHANGED << extVars, accVars, requests, updates >>

\* the owner's fields after a revoke_batch that returned, and what the
\* caller keeps of it
RevokeReturned(r) ==
    /\ Revoked(r)
    /\ do_call' = [op |-> "revoke_batch", raised |-> FALSE, error |-> "", before |-> doVars]

\* the owner's fields after a revoke_batch that ended in an exception
RevokeRaised(r, failing) ==
    /\ do_current_f' = r.current_f
    /\ do_update_count' = r.update_count
    /\ do_server_acc_keys' = r.server_acc_keys
    /\ do_global_pk' = r.global_pk
    /\ do_call' = [op |-> "revoke_batch", raised |-> TRUE, error |-> failing,
                   before |-> doVars]
    /\ UNCHANGED revocations

\* DataOwner.revoke_batch on the signature of batch i as its caller sees it;
\* failing names the call inside it that raises, "none" when none does
OwnerRevokeBatch(i, failing) ==
    /\ verdict = NoResult
    /\ i \in 1..Len(batches)
    /\ do_update_count < MaxRevocations
    /\ Len(revocations) < MaxRevocations
    /\ IF failing = "none"
       THEN RevokeReturned(revoke_batch(do_current_f, do_update_count, do_server_acc_keys,
                                        batches[i].public_header.sigma))
       ELSE RevokeRaised(revoke_batch_raising(do_current_f, do_update_count,
                                              do_server_acc_keys, do_global_pk,
                                              batches[i].public_header.sigma, failing),
                         failing)
    /\ UNCHANGED << ssVars, v_current_global_pk, batches, rnd, proof, verdict >>
    /\ UNCHANGED << extVars, accVars, requests, updates >>

OwnerNext ==
    \/ \E m_matrix \in Matrices \cup BadMatrices, t_vector \in TimeVectors :
           OwnerCreateBatch(m_matrix, t_vector)
    \/ \E i \in 1..MaxBatches, failing \in {"none"} \cup {RevokeSteps[k] : k \in 1..3} :
           OwnerRevokeBatch(i, failing)
    \/ \E i \in 1..MaxBatches, new_m_matrix \in Matrices \cup BadMatrices,
          new_t_vector \in TimeVectors :
           OwnerUpdateBatch(i, new_m_matrix, new_t_vector)

SpecOwner == Init /\ [][OwnerNext]_vars

\* ------------------------------------------------------------------------
\* The Data Owner's HTTP server (distributed/do_server.py): app.run serves
\* each request in a thread of its own, the /revoke_batch handler calls
\* DataOwner.revoke_batch on the one shared DataOwner without a lock, so the
\* statements of concurrent calls interleave.  Each statement of
\* revoke_batch reads the fields it uses, computes, and then assigns.

\* the positions of a request inside revoke_batch, in order
RequestSteps ==
    << "read_f", "write_f", "read_count", "write_count", "read_keys", "write_keys",
       "read_pk", "write_pk", "return", "done" >>

\* the position after pc
NextStep(pc) == RequestSteps[(CHOOSE k \in 1..Len(RequestSteps) : RequestSteps[k] = pc) + 1]

\* POST /revoke_batch with the signature of batch i arrives
ReceiveRevoke(i) ==
    /\ i \in 1..Len(batches)
    /\ Len(requests) < MaxRequests
    /\ requests' = Append(requests,
                          [pc |-> "read_f",
                           sigma_bytes |-> serialize_signature(batches[i].public_header.sigma),
                           f |-> Identity, count |-> 0, keys |-> << >>,
                           g_s_q_new |-> Identity, pk |-> do_global_pk,
                           response |-> [op |-> "none"]])
    /\ UNCHANGED << doVars, ssVars, v_current_global_pk, batches, revocations, rnd, proof,
                    verdict >>
    /\ UNCHANGED << extVars, accVars, do_call, updates >>

\* what the step at req.pc keeps in the locals of the request
StepLocals(req) ==
    IF req.pc = "read_f"
    THEN [req EXCEPT !.f = add_to_blacklist(acc_sk, do_current_f, req.sigma_bytes)]
    ELSE IF req.pc = "read_count" THEN [req EXCEPT !.count = do_update_count + 1]
    ELSE IF req.pc = "read_keys"
    THEN [req EXCEPT
             !.keys = expand_server_keys(acc_sk, do_server_acc_keys, do_update_count)[1],
             !.g_s_q_new = expand_server_keys(acc_sk, do_server_acc_keys,
                                              do_update_count)[2]]
    ELSE IF req.pc = "read_pk" THEN [req EXCEPT !.pk = get_latest_global_pk(do_current_f)]
    ELSE IF req.pc = "return"
    THEN [req EXCEPT !.response = [g_s_q_new |-> req.g_s_q_new, global_pk |-> do_global_pk,
                                   sigma_bytes |-> req.sigma_bytes]]
    ELSE req

\* one step of request r inside DataOwner.revoke_batch
RevokeStep(r) ==
    /\ r \in 1..Len(requests)
    /\ requests[r].pc # "done"
    /\ requests' = [requests EXCEPT ![r] = [StepLocals(@) EXCEPT !.pc = NextStep(@)]]
    /\ do_current_f' = IF requests[r].pc = "write_f" THEN requests[r].f ELSE do_current_f
    /\ do_update_count' =
           IF requests[r].pc = "write_count" THEN requests[r].count ELSE do_update_count
    /\ do_server_acc_keys' =
           IF requests[r].pc = "write_keys" THEN requests[r].keys ELSE do_server_acc_keys
    /\ do_global_pk' = IF requests[r].pc = "write_pk" THEN requests[r].pk ELSE do_global_pk
    /\ UNCHANGED << ssVars, v_current_global_pk, batches, revocations, rnd, proof, verdict >>
    /\ UNCHANGED << extVars, accVars, do_call, updates >>

ServerNext ==
    \/ \E m_matrix \in Matrices : CreateBatch(m_matrix)
    \/ \E i \in 1..MaxBatches : ReceiveRevoke(i)
    \/ \E r \in 1..MaxRequests : RevokeStep(r)

SpecServer == Init /\ [][ServerNext]_vars

\* ------------------------------------------------------------------------
\* The Storage Server's HTTP server (distributed/ss_server.py): app.run serves
\* each request in a thread of its own and no handler takes a lock, so a
\* /generate_dc_proof request is served between any two statements of a
\* StorageServer.update_batch in progress.

\* POST /update_batch with what the u-th update_batch of the owner returned
ReceiveUpdate(u) ==
    /\ verdict = NoResult
    /\ ss_update.pc = "idle"
    /\ u \in 1..Len(updates)
    /\ updates[u].revocation = Len(ss_server_acc_keys)
    /\ updates[u].revocation = Len(ss_revoked_items) + 1
    /\ ss_update' = [pc |-> UpdateStatements[1], u |-> u, before |-> ssVars]
    /\ UNCHANGED << protoVars, callVars, accVars, distVars, objVars, rangeVars >>

\* the statement after pc, "idle" after the last one
AfterStatement(pc) ==
    IF pc = UpdateStatements[Len(UpdateStatements)] THEN "idle"
    ELSE UpdateStatements[(CHOOSE k \in 1..Len(UpdateStatements) :
                              UpdateStatements[k] = pc) + 1]

\* one statement of the StorageServer.update_batch in progress
UpdateStatement ==
    /\ verdict = NoResult
    /\ ss_update.pc # "idle"
    /\ ServerUpdated(update_batch_statement(
           ss_update.pc, ss_storage, ss_server_acc_keys, ss_revoked_items,
           batches[updates[ss_update.u].old].batch_id,
           revocations[updates[ss_update.u].revocation].g_s_q_new,
           revocations[updates[ss_update.u].revocation].sigma_bytes,
           batches[updates[ss_update.u].new].batch_id,
           batches[updates[ss_update.u].new].public_header,
           batches[updates[ss_update.u].new].secrets_for_ss))
    /\ ss_update' = [ss_update EXCEPT !.pc = AfterStatement(@)]
    /\ UNCHANGED << doVars, v_current_global_pk, batches, revocations, rnd, proof, verdict >>
    /\ UNCHANGED << accVars, callVars, distVars, objVars, rangeVars >>

\* the owner's client sends store_batch and update_batch one after the
\* other; queries arrive at any time
StoreNext ==
    \/ CreateBatch(<< ColumnA >>)
    \/ \E i \in 1..Len(batches) : ss_update.pc = "idle" /\ StoreBatch(i)
    \/ \E i \in 1..Len(batches), new_m_matrix \in Matrices :
           OwnerUpdateBatch(i, new_m_matrix, TimeVector)
    \/ \E u \in 1..MaxRevocations : ReceiveUpdate(u)
    \/ UpdateStatement
    \/ \E i \in 1..Len(batches) : RequestDcProof(i, 0, AllOnes)
    \/ \E i \in 1..Len(batches) : RequestDaProof(i, 0)

SpecStore == Init /\ [][StoreNext]_vars

\* ------------------------------------------------------------------------
\* Proof requests of callers that pass an accumulator value of their own
\* (the f_current parameter of vds_server.py)

\* accumulator values a caller passes
CallerValues == {Identity, << 3, 1 >>}

\* the answer p together with the f_current the caller passed
WithArgument(p, f_current) ==
    [key \in DOMAIN p \cup {"f_current"} |-> IF key = "f_current" THEN f_current ELSE p[key]]

RequestDcProofWith(i, column_index, t, f_current) ==
    /\ verdict = NoResult
    /\ i \in 1..Len(batches)
    /\ proof' = WithArgument(
                    RequestedProof("dc", i, column_index, t,
                        generate_dc_data_proof(ss_storage, ss_server_acc_keys,
                                               ss_revoked_items, batches[i].batch_id, t,
                                               f_current, column_index)),
                    f_current)
    /\ UNCHANGED << doVars, ssVars, v_current_global_pk, batches, revocations, rnd, verdict >>
    /\ UNCHANGED << extVars, accVars, callVars >>

RequestDaProofWith(i, column_index, f_current) ==
    /\ verdict = NoResult
    /\ i \in 1..Len(batches)
    /\ proof' = WithArgument(
                    RequestedProof("da", i, column_index, << >>,
                        generate_da_audit_proof(ss_storage, ss_server_acc_keys,
                                                ss_revoked_items, batches[i].batch_id,
                                                f_current, column_index)),
                    f_current)
    /\ UNCHANGED << doVars, ssVars, v_current_global_pk, batches, revocations, rnd, verdict >>
    /\ UNCHANGED << extVars, accVars, callVars >>

CallerNext ==
    \/ CreateBatch(<< ColumnA >>)
    \/ \E i \in 1..MaxBatches : StoreBatch(i)
    \/ \E i \in 1..MaxBatches : RevokeBatch(i)
    \/ AddServerKey
    \/ AddRevokedItem
    \/ \E i \in 1..MaxBatches, f_current \in CallerValues :
           RequestDcProofWith(i, 0, AllOnes, f_current)
    \/ \E i \in 1..MaxBatches, f_current \in CallerValues :
           RequestDaProofWith(i, 0, f_current)

SpecCaller == Init /\ [][CallerNext]_vars

\* ------------------------------------------------------------------------
\* The objects of setup_system with their references: the Verifier is given
\* the dict object the Data Owner holds, and update_global_pk stores the
\* reference it is passed.

\* the owner's fields and the heap after revoke_batch returned r and a
\* reference to the new self.global_pk
RevokedObject(r, a) ==
    /\ Revoked(r)
    /\ pk_heap' = a.heap
    /\ pk_refs' = [pk_refs EXCEPT !.do = a.ref, !.returned = Append(@, a.ref)]

RevokeBatchObject(i) ==
    /\ verdict = NoResult
    /\ i \in 1..Len(batches)
    /\ Len(revocations) < MaxRevocations
    /\ \E r \in {revoke_batch(do_current_f, do_update_count, do_server_acc_keys,
                               batches[i].public_header.sigma)} :
           RevokedObject(r, assign_global_pk(pk_heap, pk_refs.do, r.global_pk))
    /\ UNCHANGED << ssVars, v_current_global_pk, batches, rnd, proof, verdict >>
    /\ UNCHANGED << accVars, callVars, ss_update, distVars, rangeVars >>

\* Verifier.update_global_pk with the object the k-th revoke_batch returned
UpdateGlobalPkObject(k) ==
    /\ verdict = NoResult
    /\ k \in 1..Len(pk_refs.returned)
    /\ pk_refs' = [pk_refs EXCEPT !.verifier = pk_refs.returned[k]]
    /\ v_current_global_pk' = pk_heap[pk_refs.returned[k]]
    /\ UNCHANGED << doVars, ssVars, batches, revocations, rnd, proof, verdict >>
    /\ UNCHANGED << accVars, callVars, ss_update, distVars, pk_heap, rangeVars >>

\* Verifier.verify_dc_query reading the object self.current_global_pk refers to
VerifyDcObject(h) ==
    /\ verdict = NoResult
    /\ proof.kind = "dc"
    /\ verdict' = [op |-> "verify_dc_query", header |-> h, t |-> proof.t,
                   result |-> verify_dc_query(pk_heap[pk_refs.verifier], h, proof.t,
                                              proof.x, proof.pi_audit, proof.pi_non)]
    /\ UNCHANGED << doVars, ssVars, v_current_global_pk, batches, revocations, rnd, proof >>
    /\ UNCHANGED << extVars, accVars, callVars >>

ObjectNext ==
    \/ CreateBatch(<< ColumnA >>)
    \/ \E i \in 1..MaxBatches : StoreBatch(i)
    \/ \E i \in 1..MaxBatches : RevokeBatchObject(i)
    \/ AddServerKey
    \/ AddRevokedItem
    \/ \E k \in 1..MaxRevocations : UpdateGlobalPkObject(k)
    \/ \E i \in 1..MaxBatches : RequestDcProof(i, 0, AllOnes)
    \/ \E i \in 1..MaxBatches : proof.kind = "dc" /\ proof.batch = i /\ VerifyDcObject(HonestHeader(i))
    \/ Resume

SpecObjects == Init /\ [][ObjectNext]_vars

\* ------------------------------------------------------------------------
\* Range proofs made and verified (tests/test_vds_scheme_c_plus.py,
\* test_6_time_proofs)

\* proof = prove_range_proof(x_value, l, crs) for a CRS of dimension n
ProveRange(n, l, x_value, gamma, r, gamma_y) ==
    /\ range_run.stage = "idle"
    /\ range_run' = [stage |-> "proved", n |-> n, l |-> l, x |-> x_value,
                     proof |-> prove_range_proof_drawing(x_value, l, keygen_crs(n),
                                                         gamma, r, gamma_y)]
    /\ UNCHANGED << accVars, protoVars, callVars, ss_update, distVars, objVars >>

\* is_valid = verify_range_proof(proof, l, crs)
VerifyRange ==
    /\ range_run.stage = "proved"
    /\ range_run.proof.ok
    /\ range_run' = [stage |-> "verified", n |-> range_run.n, l |-> range_run.l,
                     x |-> range_run.x, proof |-> range_run.proof,
                     is_valid |-> verify_range_proof(range_run.proof, range_run.l,
                                                     keygen_crs(range_run.n))]
    /\ UNCHANGED << accVars, protoVars, callVars, ss_update, distVars, objVars >>

\* the next value is tried
NextRange ==
    /\ range_run.stage # "idle"
    /\ range_run' = NoRun
    /\ UNCHANGED << accVars, protoVars, callVars, ss_update, distVars, objVars >>

RangeNext ==
    \/ \E n \in 1..MaxDim, l \in 1..(MaxDim + 1), x_value \in 0..(2 ^ MaxDim),
          gamma \in Randoms, r \in Randoms, gamma_y \in Randoms :
           ProveRange(n, l, x_value, gamma, r, gamma_y)
    \/ VerifyRange
    \/ NextRange

SpecRange == Init /\ [][RangeNext]_vars

\* ------------------------------------------------------------------------
\* The server processes of the distributed deployment and their /init

\* a server process is started with DEV_MODE = value in its environment
StartServer(server, value) ==
    /\ ~config[server].started
    /\ config' = [config EXCEPT ![server] = Config(value)]
    /\ UNCHANGED << do_state, response, ss_state >>
    /\ UNCHANGED << accVars, protoVars, callVars, ss_update, objVars, rangeVars >>

\* POST /init of the Data Owner server
DoInit(n) ==
    /\ config["do"].started
    /\ do_state' = [initialized |-> TRUE, crs |-> crs_dict(n)]
    /\ response' = [route |-> "init", success |-> TRUE,
                    crs |-> serialize_crs(crs_dict(n), config["do"].dev_mode)]
    /\ UNCHANGED << config, ss_state >>
    /\ UNCHANGED << accVars, protoVars, callVars, ss_update, objVars, rangeVars >>

\* GET /get_crs of the Data Owner server
GetCrs ==
    /\ config["do"].started
    /\ response' = IF ~do_state.initialized
                   THEN [route |-> "get_crs", success |-> FALSE]
                   ELSE [route |-> "get_crs", success |-> TRUE,
                         crs |-> serialize_crs(do_state.crs, config["do"].dev_mode)]
    /\ UNCHANGED << config, do_state, ss_state >>
    /\ UNCHANGED << accVars, protoVars, callVars, ss_update, objVars, rangeVars >>

\* POST /init of the Storage Server with the CRS of the last response
SsInit ==
    /\ config["ss"].started
    /\ response.route # "none"
    /\ response.success
    /\ ss_state' =
          LET crs_data == deserialize_crs(response.crs)
          IN  [initialized |-> TRUE,
               regenerated |-> "alpha" \in DOMAIN crs_data /\ config["ss"].dev_mode,
               crs |-> IF "alpha" \in DOMAIN crs_data /\ config["ss"].dev_mode
                       THEN crs_dict(crs_data.n) ELSE crs_data]
    /\ UNCHANGED << config, do_state, response >>
    /\ UNCHANGED << accVars, protoVars, callVars, ss_update, objVars, rangeVars >>

ConfigNext ==
    \/ \E server \in Servers, value \in EnvValues : StartServer(server, value)
    \/ \E n \in 1..N : DoInit(n)
    \/ GetCrs
    \/ SsInit

SpecConfig == Init /\ [][ConfigNext]_vars

\* ------------------------------------------------------------------------
\* Properties of the accumulator (specification SpecAcc)

\* the item of the last prove_non_membership call hashes like no element of X
HashesApart == \A k \in 1..Len(acc_X) : hash_item(acc_X[k]) # hash_item(acc_proof.item)

\* C8: after k >= 1 revocations, prove_non_membership called with the current
\* server keys and X on an item whose hash differs from the hash of every
\* element of X returns a witness that verify_non_membership accepts against
\* the current f; called on an item that is in X it raises the
\* item-is-in-the-blacklist error.
C8_WitnessAfterRevocations ==
    (Len(acc_X) >= 1 /\ acc_proof.called) =>
        /\ HashesApart =>
               /\ acc_proof.pi.ok
               /\ acc_verdict.checked => acc_verdict.accepted
        /\ (\E k \in 1..Len(acc_X) : acc_X[k] = acc_proof.item) =>
               /\ ~acc_proof.pi.ok
               /\ acc_proof.pi.error = "in the blacklist"

\* two revocations, a witness for a third item, verified and accepted
C8_Witness ==
    /\ Len(acc_X) = MaxAccRevocations
    /\ acc_X[1] # acc_X[2]
    /\ acc_proof.called
    /\ HashesApart
    /\ acc_verdict.checked
    /\ acc_verdict.accepted

ProofSigma == HonestHeader(proof.batch).sigma

\* revoke_batch has been called on sigma
RevokedByOwner(sigma) == \E i \in 1..Len(revocations) : revocations[i].sigma_bytes = sigma

\* revoke_batch has been called on sigma, the Storage Server has been handed
\* the key and the item of that call, and the Verifier holds the global_pk of
\* that call or of a later one
RevokedAndPublished(sigma) ==
    \E i \in 1..Len(revocations) :
        /\ revocations[i].sigma_bytes = sigma
        /\ Len(ss_server_acc_keys) > i
        /\ Len(ss_revoked_items) >= i
        /\ \E j \in i..Len(revocations) : v_current_global_pk = revocations[j].global_pk

\* C1: once revoke_batch(sigma) has run, the Storage Server has mirrored it
\* and the Verifier has taken the returned global_pk, every verify_dc_query
\* and verify_da_audit on a header carrying sigma returns False, for proofs
\* generated before or after the revocation, whatever else was created or
\* revoked in between.
C1_RevokedIsRejected ==
    (verdict.op # "none" /\ RevokedAndPublished(verdict.header.sigma)) =>
        verdict.result = "False"

\* a proof made before any revocation, verified after two revocations on a
\* header that passes the signature check
C1_Witness ==
    /\ verdict.op = "verify_dc_query"
    /\ verdict.header = RelabelledHeader(proof.batch)
    /\ proof.epoch = 0
    /\ Len(revocations) = MaxRevocations
    /\ revocations[1].sigma_bytes # revocations[2].sigma_bytes
    /\ RevokedAndPublished(verdict.header.sigma)
    /\ verdict.result = "False"

\* C3: a Verifier that has not taken the post-revocation global_pk still
\* accepts a proof generated before the revocation; once it has taken it, the
\* same proof is rejected.
C3_Rollback ==
    (/\ verdict.op = "verify_dc_query"
     /\ verdict.header = HonestHeader(proof.batch)
     /\ proof.epoch = 0
     /\ proof.changed = {}
     /\ RevokedByOwner(ProofSigma)) =>
        /\ v_current_global_pk = get_latest_global_pk(setup.f_initial) =>
               verdict.result = "True"
        /\ RevokedAndPublished(ProofSigma) => verdict.result = "False"

RECURSIVE AccumulatedValue(_)
\* g^(prod_{j<=k} (H(sigma_j) + s)) over the first k revocations
AccumulatedValue(k) ==
    IF k = 0 THEN One
    ELSE PolyMul(AccumulatedValue(k - 1), << hash_item(revocations[k].sigma_bytes), 1 >>)

\* the revocations so far were of pairwise distinct signatures
DistinctRevocations ==
    \A i, j \in 1..Len(revocations) :
        i # j => revocations[i].sigma_bytes # revocations[j].sigma_bytes

\* the Storage Server has been handed the key and the item of every revocation
Mirrored ==
    /\ Len(ss_server_acc_keys) = Len(revocations) + 1
    /\ Len(ss_revoked_items) = Len(revocations)

ProofColumn == batches[proof.batch].secrets_for_ss.m_matrix[proof.column_index + 1]

\* the commitment to that column in the header create_batch returned
ProofCommitment == HonestHeader(proof.batch).data.elems[proof.column_index + 1]

\* C2: with no revocation, verify_dc_query on the header create_batch
\* returned and the proof the Storage Server made from the stored batch
\* returns True, and x = sum m_i * t_i.
C2_DcHappyPath ==
    (/\ verdict.op = "verify_dc_query"
     /\ Len(revocations) = 0
     /\ verdict.header = HonestHeader(proof.batch)
     /\ proof.changed = {}) =>
        /\ verdict.result = "True"
        /\ proof.x = InnerProduct(ProofColumn, proof.t, N)

\* C4: a header put together from two batches (the data commitment of one,
\* the time commitment of the other, the signature of either) is rejected,
\* because the signature does not verify for it.
C4_MixedHeaderRejected ==
    (verdict.op # "none" /\ verdict.header \in MixedHeaders) =>
        /\ verdict.result = "False"
        /\ ~verify_batch_signature(v_current_global_pk.vk_sig, verdict.header.data,
                                   verdict.header.C_time, verdict.header.sigma)

\* a mixed header under the key the Verifier reads, carrying the signature
\* and the data commitments of the batch the proof is about
C4_Witness ==
    /\ verdict.op = "verify_dc_query"
    /\ verdict.header \in MixedHeaders
    /\ verdict.header.key = "C_data"
    /\ verdict.header.data = HonestHeader(proof.batch).data
    /\ verdict.header.sigma = ProofSigma
    /\ verdict.result = "False"

\* C5: when the Storage Server has changed an entry of the stored column and
\* the challenge has a non-zero weight there, verify_dc_query on the original
\* header returns False, and equation (1) does not hold between the original
\* commitment and the returned (x, pi_audit).
C5_TamperingDetected ==
    (/\ verdict.op = "verify_dc_query"
     /\ verdict.header = HonestHeader(proof.batch)
     /\ \E k \in proof.changed : proof.t[k] # 0) =>
        /\ verdict.result = "False"
        /\ ~equation_1(ProofCommitment, proof.t, proof.x, proof.pi_audit, crs)

\* a changed entry under a non-zero weight, verified on the original header
C5_Witness ==
    /\ verdict.op = "verify_dc_query"
    /\ verdict.header = HonestHeader(proof.batch)
    /\ proof.changed # {}
    /\ \A k \in proof.changed : proof.t[k] # 0
    /\ verdict.result = "False"

\* C6: in a DA audit of an unrevoked, unchanged batch the challenge the
\* Verifier derives again equals the Storage Server's t, and verify_da_audit
\* returns True.
C6_DaHappyPath ==
    (/\ verdict.op = "verify_da_audit"
     /\ Len(revocations) = 0
     /\ verdict.header = HonestHeader(proof.batch)
     /\ verdict.t = proof.t
     /\ proof.changed = {}) =>
        /\ H_t(PyElem(ProofCommitment), N) = proof.t
        /\ verdict.result = "True"

\* C7: verify_da_audit returns False whenever the provided challenge differs,
\* in length or in a component, from the challenge it derives from the
\* header's data commitment.
C7_ChallengeMismatchRejected ==
    (verdict.op = "verify_da_audit" /\ verdict.t # H_t(verdict.header.data, N)) =>
        verdict.result = "False"

\* a header that passes the pre-check, a proof that satisfies equation (1)
\* for the provided challenge, and that challenge differs from the derived
\* one in a component
C7_Witness ==
    /\ verdict.op = "verify_da_audit"
    /\ verify_precheck(v_current_global_pk, verdict.header, proof.pi_non).ok
    /\ equation_1(ProofCommitment, verdict.t, proof.x, proof.pi_audit, crs)
    /\ Len(verdict.t) = N
    /\ verdict.t # H_t(verdict.header.data, N)
    /\ verdict.result = "False"

\* ------------------------------------------------------------------------
\* Properties of updates (specification SpecUpdate)

\* the held proof or error answers a request made after the Storage Server
\* applied the u-th update
AfterServerUpdate(u) == proof.kind # "none" /\ proof.keys > updates[u].revocation

\* the held proof was made by a Storage Server that had applied every
\* revocation made so far, and the Verifier holds the latest global_pk
AllUpToDate ==
    /\ proof.keys = Len(revocations) + 1
    /\ proof.items = Len(revocations)
    /\ proof.epoch = Len(revocations)
    /\ v_current_global_pk = do_global_pk

\* the held proof or error answers a request for a column the batch has, with
\* a challenge of length n
WellFormedRequest ==
    /\ proof.column_index \in 0..(Len(batches[proof.batch].secrets_for_ss.m_matrix) - 1)
    /\ Len(proof.t) = crs.n

\* C11: after DataOwner.update_batch returned, StorageServer.update_batch was
\* applied with its outputs and the Verifier took the returned global_pk, a
\* proof request for the old batch id fails with batch-not-found or yields a
\* proof the Verifier rejects, and the proof generated for the new batch id
\* is accepted by the Verifier; after one update and after several.
C11_AfterUpdate ==
    \A u \in 1..Len(updates) :
        (AfterServerUpdate(u) /\ AllUpToDate /\ WellFormedRequest) =>
            /\ proof.batch = updates[u].old =>
                   \/ proof.kind = "raise" /\ proof.error = "Batch not found"
                   \/ proof.kind = "dc" /\ (verdict.op # "none" => verdict.result # "True")
            /\ (/\ proof.batch = updates[u].new
                /\ ~RevokedByOwner(ProofSigma)
                /\ verdict.op = "verify_dc_query"
                /\ verdict.header = HonestHeader(proof.batch)) =>
                   proof.kind = "dc" /\ verdict.result = "True"

\* ------------------------------------------------------------------------
\* Properties of proof requests (specification SpecSync)

\* the request behind the held proof or error named a batch the Storage
\* Server had, a column the batch has and, for a query, a challenge of
\* length n
ServedRequest ==
    /\ proof.kind # "none"
    /\ proof.known
    /\ proof.op \in {"dc", "da"} =>
           proof.column_index \in 0..(Len(batches[proof.batch].secrets_for_ss.m_matrix) - 1)
    /\ proof.op = "dc" => Len(proof.t) = crs.n

\* the signature of the requested batch was in revoked_items at the request
InRevokedItems == \E k \in 1..proof.items : revocations[k].sigma_bytes = ProofSigma

\* C12: in every Storage Server state in which the signature of the
\* requested batch is in revoked_items, generate_dc_data_proof and
\* generate_da_audit_proof return without raising, and the witness returned
\* is the dummy pair (identity of G1, 0).
C12_RevokedGetsDummy ==
    (ServedRequest /\ proof.op \in {"dc", "da"} /\ InRevokedItems) =>
        /\ proof.kind # "raise"
        /\ proof.pi_non = [w |-> Identity, u |-> 0]

\* at the request the Data Owner had revoked, and the Storage Server had not
\* received the key and the item of every revocation
OutOfSync ==
    /\ proof.epoch > 0
    /\ proof.keys < proof.epoch + 1 \/ proof.items < proof.epoch

\* verify_dc_query or verify_da_audit, whichever the held proof is for, by a
\* Verifier that holds the latest published global_pk
VerifiedLatest(h) ==
    IF proof.kind = "dc"
    THEN verify_dc_query(do_global_pk, h, proof.t, proof.x, proof.pi_audit, proof.pi_non)
    ELSE verify_da_audit(do_global_pk, h, crs.n, proof.x, proof.pi_audit, proof.t,
                         proof.pi_non)

\* C13: when the Storage Server has not completed add_server_key and
\* add_revoked_item for a revocation the Verifier already follows, proof
\* generation still returns a witness (it does not raise), and every witness
\* produced in that state, for any batch, is rejected by the Verifier.
C13_OutOfSyncWitnessRejected ==
    (ServedRequest /\ proof.op \in {"dc", "da"} /\ OutOfSync /\ proof.epoch = Len(revocations)) =>
        /\ proof.kind # "raise"
        /\ \A h \in HeadersOf(proof.batch) : VerifiedLatest(h) # "True"

\* the request behind the held proof or error named a batch the Storage
\* Server did not have, a column the batch does not have, or a challenge
\* whose length is not n
Malformed ==
    /\ proof.kind # "none"
    /\ \/ ~proof.known
       \/ /\ proof.op \in {"dc", "da"}
          /\ proof.column_index \notin
                 0..(Len(batches[proof.batch].secrets_for_ss.m_matrix) - 1)
       \/ proof.op = "dc" /\ Len(proof.t) # crs.n

\* C16: generate_dc_data_proof, generate_da_audit_proof and
\* generate_time_range_proofs called with an unknown batch_id, with a
\* column_index outside [0, d) or with a challenge vector whose length is not
\* n raise an error to the caller, and no proof request changes the Storage
\* Server's storage, server_acc_keys or revoked_items.
C16_MalformedRequestsRaise ==
    /\ [](Malformed =>
             /\ proof.kind = "raise"
             /\ proof.error \in {"Batch not found", "column_index out of range",
                                  "Challenge vector length"})
    /\ [][proof' # proof => UNCHANGED ssVars]_vars

\* a request for column -1 of a stored two-column batch raised, at a Storage
\* Server that holds an added key and a revoked item
C16_Witness ==
    /\ proof.kind = "raise"
    /\ proof.op = "dc"
    /\ proof.known
    /\ proof.column_index = 0 - 1
    /\ Len(batches[proof.batch].secrets_for_ss.m_matrix) = 2
    /\ proof.error = "column_index out of range"
    /\ proof.keys = 2
    /\ proof.items = 1
    /\ Len(ss_server_acc_keys) = 2
    /\ Len(ss_revoked_items) = 1

\* ------------------------------------------------------------------------
\* Properties of the stored batches (specification SpecQuery)

\* C14: StorageServer.store_batch never replaces an existing entry: called
\* with a batch_id that is already stored, it leaves the (public_header,
\* secrets) stored under that id as they were.
C14_NoOverwrite ==
    [][\A i \in 1..Len(batches) :
          (StoreBatch(i) /\ batches[i].batch_id \in DOMAIN ss_storage) =>
              ss_storage'[batches[i].batch_id] = ss_storage[batches[i].batch_id]]_vars

\* C15: for a batch with d >= 2 columns under one C_time and one sigma, and
\* for every column index j in [0, d), the DC proof the Storage Server
\* generates for column j is accepted by verify_dc_query called with
\* column_index = j.
C15_EachColumnVerifies ==
    (/\ verdict.op = "verify_dc_query with column_index"
     /\ Len(HonestHeader(proof.batch).data.elems) >= 2
     /\ verdict.column_index = proof.column_index
     /\ proof.changed = {}) =>
        /\ proof.x = InnerProduct(ProofColumn, proof.t, N)
        /\ verdict.result = "True"

\* ------------------------------------------------------------------------
\* Properties of the Data Owner's methods (specification SpecOwner)

\* the owner's four fields are what they were before the last call
OwnerUnchanged == doVars = do_call.before

\* the last call made one revocation: f, update_count, server_acc_keys and
\* global_pk all moved on together
OwnerRevokedOnce ==
    /\ do_current_f # do_call.before[1]
    /\ do_update_count = do_call.before[2] + 1
    /\ Len(do_server_acc_keys) = Len(do_call.before[3]) + 1
    /\ SubSeq(do_server_acc_keys, 1, Len(do_call.before[3])) = do_call.before[3]
    /\ do_global_pk = get_latest_global_pk(do_current_f)

\* C17: revoke_batch is all-or-nothing: when it fails part-way (an exception
\* while updating f, while extending the server keys or while rebuilding
\* global_pk), current_f, update_count, server_acc_keys and global_pk equal
\* their values from before the call; otherwise all four are updated together.
C17_RevokeAllOrNothing ==
    do_call.op = "revoke_batch" =>
        IF do_call.raised THEN OwnerUnchanged ELSE OwnerRevokedOnce

\* C18: DataOwner.update_batch is one step: it revokes the old signature and
\* returns a new batch, or, when it raises (new_t_vector or a new column not
\* of length n, an empty new matrix), it leaves current_f, update_count,
\* server_acc_keys and global_pk unchanged, so that the old batch is not
\* revoked.
C18_UpdateAtomic ==
    do_call.op = "update_batch" =>
        IF do_call.raised
        THEN OwnerUnchanged /\ do_call.error # ""
        ELSE OwnerRevokedOnce /\ Len(updates) > 0

\* C19: create_batch does not touch the owner's shared state: current_f,
\* server_acc_keys, update_count and global_pk are the same before and after
\* every create_batch call, whether it returns a batch or raises a validation
\* error.
C19_CreateBatchPure == do_call.op = "create_batch" => OwnerUnchanged

\* a create_batch that raised on a time vector of the wrong length, by an
\* owner that has revoked a batch
C19_Witness ==
    /\ do_call.op = "create_batch"
    /\ do_call.raised
    /\ do_call.error = "Time vector must have length n"
    /\ do_update_count = 1
    /\ OwnerUnchanged

\* ------------------------------------------------------------------------
\* Properties of the Data Owner's HTTP server (specification SpecServer)

RECURSIVE RunInOrder(_, _, _)
\* the owner's fields and the returns after revoke_batch was called on the
\* signatures of the requests order[1], ..., order[k], one call after the
\* other, from the initial state
RunInOrder(order, k, reqs) ==
    IF k = 0
    THEN [current_f |-> setup.f_initial, update_count |-> 0,
          server_acc_keys |-> setup.server_keys,
          global_pk |-> get_latest_global_pk(setup.f_initial), returns |-> << >>]
    ELSE LET before == RunInOrder(order, k - 1, reqs)
             r == revoke_batch(before.current_f, before.update_count,
                               before.server_acc_keys, reqs[order[k]].sigma_bytes)
         IN  [current_f |-> r.current_f, update_count |-> r.update_count,
              server_acc_keys |-> r.server_acc_keys, global_pk |-> r.global_pk,
              returns |-> Append(before.returns, r.returned)]

\* the orders in which the requests can be served one after the other
Orders == {order \in [1..Len(requests) -> 1..Len(requests)] :
              \A a, b \in 1..Len(requests) : a # b => order[a] # order[b]}

\* every request received has been answered
AllAnswered == Len(requests) = MaxRequests /\ \A r \in 1..Len(requests) : requests[r].pc = "done"

\* C20: for any interleaving of k concurrent revoke_batch requests handled
\* by the DO server, the resulting owner state is the state after some
\* sequential execution of them (update_count = k, server_acc_keys = (g, ...,
\* g^(s^k)), f with all k items, global_pk['f_current'] = current_f), and
\* each response carries the server key and global_pk of its own position in
\* that order.
C20_RevocationsSerialised ==
    AllAnswered =>
        \E order \in Orders :
            /\ do_current_f = RunInOrder(order, Len(requests), requests).current_f
            /\ do_update_count = Len(requests)
            /\ do_server_acc_keys = RunInOrder(order, Len(requests), requests).server_acc_keys
            /\ do_global_pk = RunInOrder(order, Len(requests), requests).global_pk
            /\ \A k \in 1..Len(requests) :
                   requests[order[k]].response =
                       RunInOrder(order, Len(requests), requests).returns[k]

\* ------------------------------------------------------------------------
\* Properties of the Storage Server's HTTP server (specification SpecStore)

\* C21: no generate_dc_data_proof or generate_da_audit_proof call runs in a
\* state where a revocation is only half applied (server_acc_keys extended
\* and revoked_items not yet, or the reverse), and none runs on a batch while
\* update_batch is deleting or storing its entry.
C21_ProofsSeeWholeUpdates ==
    proof.kind # "none" =>
        /\ proof.keys = proof.items + 1
        /\ proof.during \in {"delete", "store_batch"} =>
               proof.batch \notin {updates[ss_update.u].old, updates[ss_update.u].new}

\* position of the statement the update in progress is at
AtStatement == CHOOSE k \in 1..Len(UpdateStatements) : UpdateStatements[k] = ss_update.pc

\* the ids of the batch the update in progress replaces and of the new one
OldId == batches[updates[ss_update.u].old].batch_id

NewId == batches[updates[ss_update.u].new].batch_id

\* while update_batch runs the fields change in the order of its statements
InStatementOrder ==
    ss_update.pc # "idle" =>
        /\ ss_server_acc_keys =
               IF AtStatement >= 2
               THEN Append(ss_update.before[2],
                           revocations[updates[ss_update.u].revocation].g_s_q_new)
               ELSE ss_update.before[2]
        /\ ss_revoked_items =
               IF AtStatement >= 3
               THEN Append(ss_update.before[3],
                           revocations[updates[ss_update.u].revocation].sigma_bytes)
               ELSE ss_update.before[3]
        /\ DOMAIN ss_storage =
               IF AtStatement = 4 THEN DOMAIN ss_update.before[1] \ {OldId}
               ELSE DOMAIN ss_update.before[1]
        /\ \A id \in DOMAIN ss_storage : ss_storage[id] = ss_update.before[1][id]

\* what the last statement of update_batch leaves
WholeUpdate ==
    ss_update.pc = "store_batch" /\ ss_update'.pc = "idle" =>
        /\ Len(ss_server_acc_keys') = Len(ss_update.before[2]) + 1
        /\ Len(ss_revoked_items') = Len(ss_update.before[3]) + 1
        /\ DOMAIN ss_storage' = (DOMAIN ss_update.before[1] \ {OldId}) \cup {NewId}
        /\ ss_storage'[NewId] =
               [header |-> batches[updates[ss_update.u].new].public_header,
                secrets |-> batches[updates[ss_update.u].new].secrets_for_ss]
        /\ \A id \in DOMAIN ss_update.before[1] \ {OldId, NewId} :
               ss_storage'[id] = ss_update.before[1][id]

\* C27: StorageServer.update_batch appends exactly one element to
\* server_acc_keys, then one to revoked_items, then removes the old batch's
\* entry if there is one, then stores the new batch; every other stored
\* batch is left as it was, also when the old id was not stored.
C27_UpdateBatchEffect == []InStatementOrder /\ [][WholeUpdate]_vars

\* an update_batch has run to its end on a server that did not hold the old
\* batch and held another one
C27_Witness ==
    /\ ss_update.pc = "idle"
    /\ ss_update.u # 0
    /\ OldId \notin DOMAIN ss_update.before[1]
    /\ \E id \in DOMAIN ss_update.before[1] : id # NewId /\ id \in DOMAIN ss_storage
    /\ NewId \in DOMAIN ss_storage

\* ------------------------------------------------------------------------
\* Time range proofs (specification SpecSync)

\* C23: for a stored batch, whose time entries all lie in [0, 2^32),
\* generate_time_range_proofs returns one entry per time element, each a
\* range proof with l = 32, all sharing one non-membership witness.
C23_TimeRangeProofsReturned ==
    (proof.kind # "none" /\ proof.op = "range" /\ proof.known) =>
        /\ proof.kind = "range"
        /\ Len(proof.time_proofs) = Len(batches[proof.batch].secrets_for_ss.t)
        /\ \A k \in 1..Len(proof.time_proofs) :
               /\ proof.time_proofs[k].range_proof.l = RangeBits
               /\ proof.time_proofs[k].pi_non = proof.time_proofs[1].pi_non

\* ------------------------------------------------------------------------
\* Properties of the configuration (specification SpecConfig)

\* C24: the serialised CRS the Data Owner server sends contains alpha only
\* when the development flag is explicitly switched on; with DEV_MODE not
\* set it contains no alpha.
C24_TrapdoorOnlyInDevMode ==
    (response.route # "none" /\ response.success) =>
        /\ "alpha" \in DOMAIN response.crs =>
               (config["do"].env # NotSet /\ lower(config["do"].env) = "true")
        /\ config["do"].env = NotSet => "alpha" \notin DOMAIN response.crs

\* ------------------------------------------------------------------------
\* Repeated revocation (specification Spec)

\* the revocation this step records names a signature revoked before
RevokesAgain ==
    /\ Len(revocations') = Len(revocations) + 1
    /\ \E j \in 1..Len(revocations) :
           revocations[j].sigma_bytes = revocations'[Len(revocations')].sigma_bytes

\* C25: revoke_batch does not detect a signature it revoked before: the call
\* increments update_count, appends a server key and multiplies the
\* exponent of f by (H(sigma) + s) once more.
C25_RevokesAgain ==
    [][RevokesAgain =>
          /\ do_update_count' = do_update_count + 1
          /\ Len(do_server_acc_keys') = Len(do_server_acc_keys) + 1
          /\ do_server_acc_keys'[Len(do_server_acc_keys')] = Monomial(do_update_count')
          /\ do_current_f' =
                 PolyMul(do_current_f,
                         << hash_item(revocations'[Len(revocations')].sigma_bytes), 1 >>)
          /\ do_current_f' # do_current_f
          /\ do_global_pk'.f_current = do_current_f']_vars

\* the same signature has been revoked twice
C25_Witness ==
    /\ Len(revocations) = 2
    /\ revocations[1].sigma_bytes = revocations[2].sigma_bytes
    /\ do_update_count = 2
    /\ Len(do_server_acc_keys) = 3

\* ------------------------------------------------------------------------
\* Selective revocation (specification SpecUpdate)

\* C26: after other batches were revoked, the Storage Server mirrored every
\* revocation and the Verifier took the latest global_pk, a freshly
\* generated DC proof for a stored batch that was never revoked is accepted.
C26_OtherBatchesStillVerify ==
    (/\ Len(revocations) >= 1
     /\ proof.kind # "none"
     /\ proof.known
     /\ AllUpToDate
     /\ WellFormedRequest
     /\ ~RevokedByOwner(ProofSigma)
     /\ verdict.op = "verify_dc_query"
     /\ verdict.header = HonestHeader(proof.batch)) =>
        proof.kind = "dc" /\ verdict.result = "True"

\* ------------------------------------------------------------------------
\* Stale witnesses (specification SpecUpdate)

\* the last revocation whose global_pk the Verifier holds, 0 for none
VerifierEpoch ==
    LET taken == {j \in 1..Len(revocations) : v_current_global_pk = revocations[j].global_pk}
    IN  IF taken = {} THEN 0 ELSE CHOOSE j \in taken : \A k \in taken : k <= j

\* the accumulator check of the Verifier on the held proof's witness
WitnessVerifies ==
    verify_non_membership(v_current_global_pk.acc_pk, v_current_global_pk.f_current,
                          ProofSigma, proof.pi_non)

\* the held proof is a DC proof of a batch that no call revoked
ProofOfLiveBatch == proof.kind = "dc" /\ ~RevokedByOwner(ProofSigma)

\* C28: a proof generated for a non-revoked batch before another batch was
\* revoked is rejected by a Verifier that took the global_pk of that
\* revocation; the witness passes again only when it was generated after
\* the Storage Server mirrored that revocation.
C28_StaleWitnessRejected ==
    ProofOfLiveBatch =>
        /\ proof.items < VerifierEpoch =>
               /\ ~WitnessVerifies
               /\ verdict.op # "none" => verdict.result = "False"
        /\ WitnessVerifies => proof.items >= VerifierEpoch

\* the Verifier, updated after a revocation, has rejected a proof of a live
\* batch that was generated before the revocation
C28_Witness ==
    /\ ProofOfLiveBatch
    /\ proof.items < VerifierEpoch
    /\ proof.items < Len(revocations)
    /\ verdict.op = "verify_dc_query"
    /\ verdict.header = HonestHeader(proof.batch)
    /\ verdict.result = "False"

\* a witness regenerated after the Storage Server mirrored the revocation
\* passes the accumulator check of the updated Verifier
C28_Regenerated ==
    /\ ProofOfLiveBatch
    /\ VerifierEpoch >= 1
    /\ proof.items = VerifierEpoch
    /\ WitnessVerifies

\* ------------------------------------------------------------------------
\* The f_current argument of proof requests (specification SpecCaller)

\* what the Storage Server returns to the request behind p when the caller
\* passes f_current
ResultWith(p, f_current) ==
    IF p.op = "dc"
    THEN generate_dc_data_proof(ss_storage, ss_server_acc_keys, ss_revoked_items,
                                batches[p.batch].batch_id, p.t, f_current, p.column_index)
    ELSE generate_da_audit_proof(ss_storage, ss_server_acc_keys, ss_revoked_items,
                                 batches[p.batch].batch_id, f_current, p.column_index)

\* p holds the result r: its x, pi_audit and witness, or its error
Answered(p, r) ==
    IF r.ok
    THEN /\ p.kind = p.op
         /\ p.x = r.x
         /\ p.pi_audit = r.pi_audit
         /\ p.pi_non = r.pi_non
    ELSE p.kind = "raise" /\ p.error = r.error

ObjectsKept == \A ref \in 1..Len(pk_heap) : pk_heap'[ref] = pk_heap[ref]

\* the key the Verifier reads changes only when update_global_pk gives it
\* another object
VerifierKeyKept ==
    pk_heap'[pk_refs'.verifier] # pk_heap[pk_refs.verifier] =>
        /\ pk_refs'.verifier # pk_refs.verifier
        /\ pk_refs'.verifier \in {pk_refs.returned[k] : k \in 1..Len(pk_refs.returned)}

\* revoke_batch returns an object nobody held before
FreshObject ==
    Len(pk_refs'.returned) > Len(pk_refs.returned) =>
        /\ pk_refs'.do \notin {pk_refs.do, pk_refs.verifier}
                                \cup {pk_refs.returned[k] : k \in 1..Len(pk_refs.returned)}
        /\ pk_heap'[pk_refs'.do] = do_global_pk'

\* the Verifier decides with the key of the object it was last given
DecidesWithOwnKey ==
    (verdict.op = "none" /\ verdict'.op = "verify_dc_query") =>
        verdict'.result = verify_dc_query(v_current_global_pk, verdict'.header, proof.t,
                                          proof.x, proof.pi_audit, proof.pi_non)

\* C29: revoke_batch builds a new global_pk object and never modifies one it
\* returned earlier, so the Verifier's current_global_pk and its decisions
\* change only when update_global_pk is called.
C29_PublishedKeysAreSnapshots ==
    [][ObjectsKept /\ VerifierKeyKept /\ FreshObject /\ DecidesWithOwnKey]_vars

\* the owner has revoked since the Verifier was last given a key, and the
\* Verifier has decided a query with the key it holds
C29_Witness ==
    /\ Len(pk_refs.returned) >= 1
    /\ pk_refs.verifier # pk_refs.do
    /\ pk_heap[pk_refs.verifier] # pk_heap[pk_refs.do]
    /\ pk_heap[pk_refs.verifier] = v_current_global_pk
    /\ verdict.op = "verify_dc_query"

\* ------------------------------------------------------------------------
\* Properties of range proofs (specification SpecRange)

\* C22: for every l <= n and every x with 0 <= x <= 2^l - 1, the proof
\* prove_range_proof(x, l, crs) returns is accepted by verify_range_proof.
C22_RangeProofComplete ==
    (/\ range_run.stage # "idle"
     /\ range_run.l <= range_run.n
     /\ range_run.x \in 0..(2 ^ range_run.l - 1)) =>
        /\ range_run.proof.ok
        /\ range_run.stage = "verified" => range_run.is_valid

====
